---- MODULE Spec2Model ----
(***************************************************************************)
(* A model of lustro's polling-state-dedup-alert engine:                   *)
(*   - the advisory process lock (state.py, lockfile),                      *)
(*   - the atomic state save (state.py save_state, breaking.py              *)
(*     save_breaking_state),                                                *)
(*   - the alert throttle (breaking.py reset_daily_counter, can_alert),     *)
(*   - the breaking-news run (breaking.py _run_breaking_locked),            *)
(*   - the cadence scheduler and the loaders (state.py),                    *)
(*   - the daily fetch run and its deduplicator (cli.py, log.py),           *)
(*   - the fetch of one source with its fallback (cli.py, fetcher.py),      *)
(*   - the log file under concurrent writers (log.py append_to_log).        *)
(* Each part has its own specification over the shared variables:          *)
(*   LockSpec / LockLive / GuardedSpec, SaveSpec, ThrottleSpec, LoadSpec,   *)
(*   TypedSpec, ClassifySpec, CadenceSpec, SourceSpec, AppendSpec,          *)
(*   Spec / WindowSpec (breaking runs in one step), FetchSpec / StepSpec /  *)
(*   PollSpec (runs step by step) and RepeatSpec / StreakSpec (fetch runs   *)
(*   in one step).                                                          *)
(***************************************************************************)
EXTENDS Integers, Sequences, FiniteSets, TLC

VARIABLES
    \* ---- process lock (state.py lockfile) ----
    lockDir,     \* inode the lock path names, NoIno when the path does not exist
    flockOf,     \* inode -> open file description holding LOCK_EX, or NoDesc
    fds,         \* process -> nesting level -> inode its descriptor refers to
    lpc,         \* process -> [ph, lvl]: position inside lockfile()
    raising,     \* process -> the exception in flight ("no" when none)
    exit,        \* process -> how its last invocation ended
    wasHolder,   \* process -> whether the current/last invocation acquired
    \* ---- atomic save (state.py save_state) ----
    files,       \* inode -> file content (a sequence of tokens)
    target,      \* inode the state path names, NoIno when missing
    temps,       \* inodes named by temporary files in the state directory
    spc,         \* position of the saving process inside save_state
    tmpIno,      \* inode of the temporary file of the save in progress
    payload,     \* the text being written by the save in progress
    written,     \* tokens of the payload written so far
    committed,   \* content of the target when the save in progress began
    rfd,         \* inode a concurrent reader has open, NoIno when none
    lastRead,    \* what the reader's last read_text returned
    \* ---- throttle functions applied to drawn inputs ----
    tInput,      \* the state dict as drawn
    tState,      \* the state dict handed to the function
    tNow,        \* the now handed to the function
    tPrev,       \* the state dict before the last application
    tOp,         \* the last function applied
    tResult,     \* its return value
    tCount,      \* how many times reset_daily_counter was applied
    tCadence,    \* the cadence argument of should_fetch
    \* ---- breaking run (breaking.py run_breaking / _run_breaking_locked) ----
    clock,       \* wall clock (UTC, never stepping back): the now of the last run
    published,   \* number of articles the tier-1 source has published
    flood,       \* number of articles the other tier-1 sources have published
    disk,        \* breaking-state.json: {} when missing, else {the persisted dict}
    log,         \* the markdown log: one entry per appended section
    dryRun,      \* the last run's dry_run flag
    atLoad,      \* alerts_today and today_date as the last run loaded them
    returned,    \* the articles the sources returned to the last run, in order
    skips,       \* feed entries the last run skipped because their digest was seen
    matches,     \* the breaking matches of the last run
    sentMatches, \* the matches the last run handled as sent
    sendResult,  \* what the notification sender did in the last run, "none" when not called
    alertCount,  \* history: UTC day -> number of alerts dispatched on it
    lastAlertAt, \* history: time of the latest dispatch, -1 when none yet
    tooClose,    \* history: two dispatches were less than the cooldown apart
    alertsOf,    \* history: article number -> number of alerts dispatched for it
    \* ---- one invocation step by step (cli.py _cmd_fetch_locked, breaking.py) ----
    cmd,         \* the command invoked: "fetch" or "breaking"
    pc,          \* where the invocation stands; "idle" between invocations
    mem,         \* the state dict of the invocation, in memory
    fetchFile,   \* state.json: {} when missing, else {the persisted dict}
    newsLog,     \* the batches append_to_log added to the log
    writes,      \* how often the invocation has written its state file
    atStart,     \* its state file as the invocation found it
    nextSrc,     \* fetch: index of the next source of the loop
    results,     \* fetch: the sources with new articles
    polled,      \* fetch: the sources fetched
    cadenceOf,   \* configuration: source name -> cadence class
    lastExit,    \* how the last invocation ended: "none", "ok", "aborted"
    found,       \* breaking: the matches of the scan
    handled,     \* breaking: the matches handled as sent
    prefixes,    \* fetch: title_prefixes, the signatures the invocation knows
    accepted,    \* fetch: results in the order of the dict, pairs <<source, new articles>>
    offered,     \* what each fetch of the invocation got from its source, in order
    before,      \* whole runs: offered of the run before
    warned,      \* fetch: the sources the invocation printed the zero-article warning for
    streak,      \* whole runs: source -> its fetches without a new article in a row
    \* ---- the log file under concurrent writers (log.py append_to_log) ----
    logFile,     \* the parts of the log file in order, NoLog when it does not exist
    apc,         \* command -> where its call of append_to_log stands
    abuf,        \* command -> the content its call has read
    appended     \* history: the batches whose append_to_log has returned

lockVars == <<lockDir, flockOf, fds, lpc, raising, exit, wasHolder>>
saveVars == <<files, target, temps, spc, tmpIno, payload, written, committed, rfd, lastRead>>
fnVars == <<tInput, tState, tNow, tPrev, tOp, tResult, tCount, tCadence>>
runVars == <<clock, published, flood, disk, log, dryRun, atLoad, returned, skips, matches, sentMatches,
             sendResult,
             alertCount, lastAlertAt, tooClose, alertsOf>>
dedupVars == <<prefixes, accepted, offered, before>>
zeroVars == <<warned, streak>>
stepVars == <<cmd, pc, mem, fetchFile, newsLog, writes, atStart, nextSrc, results, polled,
              cadenceOf, lastExit, found, handled, dedupVars, zeroVars>>
appendVars == <<logFile, apc, abuf, appended>>
vars == <<lockVars, saveVars, fnVars, runVars, stepVars, appendVars>>

-----------------------------------------------------------------------------
(* Bounds of the model *)

\* the processes invoking lustro on the same state file
NumProcs == 2

Procs == 1..NumProcs
\* the outer `with lockfile(path)` and a second one entered from its body
Levels == {1, 2}
\* the processes whose run body makes that second attempt
Nesters == {1}
NoIno == 0
NoDesc == <<0, 0>>
\* enough inode numbers for every descriptor plus the directory entry
LockInodes == 1..(NumProcs + Cardinality(Nesters) + 1)

-----------------------------------------------------------------------------
(* ProcessLock: state.py lockfile(), lines 15-32.                          *)
(* flock(2) locks belong to the open file description, so a second open of *)
(* the same file conflicts even inside one process; a lock on an unlinked  *)
(* inode does not conflict with a lock on a new file of the same name.     *)

Out == [ph |-> "out", lvl |-> 0]

InodeInUse(i) == lockDir = i \/ \E p \in Procs, l \in Levels : fds[p][l] = i

FreeInode == CHOOSE i \in LockInodes : ~InodeInUse(i) /\ \A j \in LockInodes : j < i => InodeInUse(j)

\* the lock table after the descriptor d is unlocked or closed
ReleaseLeaks(d) == flockOf

ReleaseDesc(d) == [i \in LockInodes |-> IF flockOf[i] = d THEN NoDesc ELSE flockOf[i]]

\* the process holds an exclusive lock through one of its descriptors
Holds(p) == \E i \in LockInodes : flockOf[i] # NoDesc /\ flockOf[i][1] = p

SomeLockHeld == \E i \in LockInodes : flockOf[i] # NoDesc

\* the process is inside the body of the outermost `with lockfile(path)`
InBody(p) == lpc[p].lvl >= 1 /\ (lpc[p].ph = "body" \/ lpc[p].lvl >= 2)

LockInit ==
    /\ lockDir = NoIno
    /\ flockOf = [i \in LockInodes |-> NoDesc]
    /\ fds = [p \in Procs |-> [l \in Levels |-> NoIno]]
    /\ lpc = [p \in Procs |-> Out]
    /\ raising = [p \in Procs |-> "no"]
    /\ exit = [p \in Procs |-> "none"]
    /\ wasHolder = [p \in Procs |-> FALSE]

\* lines 18-20: os.open(lock_path, O_CREAT | O_WRONLY); a new invocation, or a
\* second `with lockfile(path)` entered from inside the run body
LockOpen(p) ==
    /\ \/ lpc[p] = Out
       \/ lpc[p].ph = "body" /\ lpc[p].lvl = 1 /\ p \in Nesters
    /\ LET l == lpc[p].lvl + 1
           ino == IF lockDir = NoIno THEN FreeInode ELSE lockDir
       IN /\ lockDir' = ino
          /\ fds' = [fds EXCEPT ![p][l] = ino]
          /\ lpc' = [lpc EXCEPT ![p] = [ph |-> "flock", lvl |-> l]]
          /\ exit' = [exit EXCEPT ![p] = IF l = 1 THEN "none" ELSE @]
          /\ wasHolder' = [wasHolder EXCEPT ![p] = IF l = 1 THEN FALSE ELSE @]
    /\ UNCHANGED <<flockOf, raising>>
    /\ UNCHANGED <<saveVars, fnVars, appendVars, runVars, stepVars>>

\* an acquisition that goes on into the run body when flock fails
LockFlockEntersAnyway(p) ==
    /\ lpc[p].ph = "flock"
    /\ LET l == lpc[p].lvl
           ino == fds[p][l]
       IN /\ flockOf' = IF flockOf[ino] = NoDesc THEN [flockOf EXCEPT ![ino] = <<p, l>>] ELSE flockOf
          /\ wasHolder' = IF flockOf[ino] = NoDesc THEN [wasHolder EXCEPT ![p] = TRUE] ELSE wasHolder
          /\ lpc' = [lpc EXCEPT ![p].ph = "body"]
    /\ UNCHANGED <<lockDir, fds, exit, raising>>
    /\ UNCHANGED <<saveVars, fnVars, appendVars, runVars, stepVars>>

\* lines 22-27: flock(fd, LOCK_EX | LOCK_NB); OSError -> SystemExit(1), else yield
LockFlock(p) ==
    /\ lpc[p].ph = "flock"
    /\ LET l == lpc[p].lvl
           ino == fds[p][l]
       IN IF flockOf[ino] = NoDesc
          THEN /\ flockOf' = [flockOf EXCEPT ![ino] = <<p, l>>]
               /\ lpc' = [lpc EXCEPT ![p].ph = "body"]
               /\ wasHolder' = [wasHolder EXCEPT ![p] = TRUE]
               /\ UNCHANGED raising
          ELSE /\ raising' = [raising EXCEPT ![p] = "SystemExit1"]
               /\ lpc' = [lpc EXCEPT ![p].ph = "unlock"]
               /\ UNCHANGED <<flockOf, wasHolder>>
    /\ UNCHANGED <<lockDir, fds, exit>>
    /\ UNCHANGED <<saveVars, fnVars, appendVars, runVars, stepVars>>

\* the run body ends: it returns, or an exception leaves it
LockBodyEnd(p) ==
    /\ lpc[p].ph = "body"
    /\ \E r \in {"no", "exception"} : raising' = [raising EXCEPT ![p] = r]
    /\ lpc' = [lpc EXCEPT ![p].ph = "unlock"]
    /\ UNCHANGED <<lockDir, flockOf, fds, exit, wasHolder>>
    /\ UNCHANGED <<saveVars, fnVars, appendVars, runVars, stepVars>>

\* line 29: fcntl.flock(fd, fcntl.LOCK_UN)
LockUnlock(p) ==
    /\ lpc[p].ph = "unlock"
    /\ flockOf' = ReleaseDesc(<<p, lpc[p].lvl>>)
    /\ lpc' = [lpc EXCEPT ![p].ph = "close"]
    /\ UNCHANGED <<lockDir, fds, raising, exit, wasHolder>>
    /\ UNCHANGED <<saveVars, fnVars, appendVars, runVars, stepVars>>

\* line 30: os.close(fd)
LockClose(p) ==
    /\ lpc[p].ph = "close"
    /\ flockOf' = ReleaseDesc(<<p, lpc[p].lvl>>)
    /\ fds' = [fds EXCEPT ![p][lpc[p].lvl] = NoIno]
    /\ lpc' = [lpc EXCEPT ![p].ph = "unlink"]
    /\ UNCHANGED <<lockDir, raising, exit, wasHolder>>
    /\ UNCHANGED <<saveVars, fnVars, appendVars, runVars, stepVars>>

\* lines 31-32: lock_path.unlink(), OSError suppressed; then the with-statement
\* is left: the exception in flight propagates, or control returns
LockUnlink(p) ==
    /\ lpc[p].ph = "unlink"
    /\ lockDir' = NoIno
    /\ IF lpc[p].lvl = 1
       THEN /\ lpc' = [lpc EXCEPT ![p] = Out]
            /\ exit' = [exit EXCEPT ![p] = IF raising[p] = "no" THEN "0" ELSE "1"]
            /\ raising' = [raising EXCEPT ![p] = "no"]
       ELSE /\ lpc' = [lpc EXCEPT ![p] =
                        [ph |-> IF raising[p] = "no" THEN "body" ELSE "unlock",
                         lvl |-> lpc[p].lvl - 1]]
            /\ UNCHANGED <<exit, raising>>
    /\ UNCHANGED <<flockOf, fds, wasHolder>>
    /\ UNCHANGED <<saveVars, fnVars, appendVars, runVars, stepVars>>

\* process death: the kernel closes every descriptor; no finally block runs
LockKill(p) ==
    /\ lpc[p] # Out
    /\ flockOf' = [i \in LockInodes |->
                     IF flockOf[i] # NoDesc /\ flockOf[i][1] = p THEN NoDesc ELSE flockOf[i]]
    /\ fds' = [fds EXCEPT ![p] = [l \in Levels |-> NoIno]]
    /\ lpc' = [lpc EXCEPT ![p] = Out]
    /\ raising' = [raising EXCEPT ![p] = "no"]
    /\ exit' = [exit EXCEPT ![p] = "killed"]
    /\ UNCHANGED <<lockDir, wasHolder>>
    /\ UNCHANGED <<saveVars, fnVars, appendVars, runVars, stepVars>>

LockStep(p) ==
    \/ LockOpen(p)
    \/ LockFlock(p)
    \/ LockBodyEnd(p)
    \/ LockUnlock(p)
    \/ LockClose(p)
    \/ LockUnlink(p)

LockNext == \E p \in Procs : LockStep(p) \/ LockKill(p)

-----------------------------------------------------------------------------
(* StateStore: state.py save_state(), lines 60-72 (save_breaking_state,    *)
(* breaking.py lines 85-98, is the same code), and a concurrent reader      *)
(* doing path.read_text() as load_state does (state.py lines 44-50).        *)

\* how many saves may be killed (each may leave a temporary file behind)
MaxKills == 1

SaveInodes == 1..(MaxKills + 3)
Missing == <<"missing">>
Nothing == <<"nothing">>

\* fetch states: maps from source keys to timestamp strings
KeyOrder == <<"a", "b">>
StateValues == {"t1"}
SaveStates == UNION {[K -> StateValues] : K \in {{}, {"a", "b"}}}

RECURSIVE SortedItems(_, _)
SortedItems(state, i) ==
    IF i > Len(KeyOrder) THEN <<>>
    ELSE (IF KeyOrder[i] \in DOMAIN state THEN <<<<KeyOrder[i], state[KeyOrder[i]]>>>> ELSE <<>>)
         \o SortedItems(state, i + 1)

\* line 62: json.dumps(dict(state), indent=2, sort_keys=True), as a token sequence
Dumps(state) == <<"{">> \o SortedItems(state, 1) \o <<"}">>

FullTexts == {Dumps(s) : s \in SaveStates}

\* json.loads of a text: the object's items assigned in order to a dict, or
\* JSONDecodeError for a text that is no complete object
RECURSIVE ItemsToDict(_, _, _)
ItemsToDict(items, i, acc) ==
    IF i > Len(items) THEN acc
    ELSE ItemsToDict(items, i + 1,
                     [k \in DOMAIN acc \cup {items[i][1]} |->
                         IF k = items[i][1] THEN items[i][2] ELSE acc[k]])

JsonLoads(text) ==
    IF Len(text) < 2 THEN [ok |-> FALSE, value |-> <<>>]
    ELSE IF text[1] # "{" \/ text[Len(text)] # "}" THEN [ok |-> FALSE, value |-> <<>>]
    ELSE [ok |-> TRUE, value |-> ItemsToDict(SubSeq(text, 2, Len(text) - 1), 1, <<>>)]

\* a load that returns the empty state whatever the file holds
LoadNothing(text) == <<>>

\* state.py lines 44-57, load_state on the text of the file (Missing when there
\* is no file); every key and value of an object of this model is a string, so
\* the filter of lines 53-57 keeps every item
LoadStateFrom(text) ==
    IF text = Missing THEN <<>>
    ELSE IF ~JsonLoads(text).ok THEN <<>>
    ELSE JsonLoads(text).value

SaveInodeInUse(i) == target = i \/ i \in temps \/ rfd = i

FreeSaveInode == CHOOSE i \in SaveInodes : ~SaveInodeInUse(i) /\ \A j \in SaveInodes : j < i => SaveInodeInUse(j)

TargetText == IF target = NoIno THEN Missing ELSE files[target]

\* the file table once name-less, unopened inodes are reclaimed
Reclaim(fs, tgt, tmps, rd) ==
    [i \in SaveInodes |-> IF tgt = i \/ i \in tmps \/ rd = i THEN fs[i] ELSE <<>>]

SaveInit ==
    /\ files = [i \in SaveInodes |-> <<>>]
    /\ target = NoIno
    /\ temps = {}
    /\ spc = "idle"
    /\ tmpIno = NoIno
    /\ payload = <<>>
    /\ written = 0
    /\ committed = Missing
    /\ rfd = NoIno
    /\ lastRead = Nothing

\* lines 61-63: payload = json.dumps(...); tempfile.mkstemp(dir=path.parent)
SaveBegin ==
    /\ spc = "idle"
    /\ Cardinality(temps) < MaxKills + 1
    /\ \E s \in SaveStates : payload' = Dumps(s)
    /\ committed' = TargetText
    /\ tmpIno' = FreeSaveInode
    /\ temps' = temps \cup {FreeSaveInode}
    /\ files' = [files EXCEPT ![FreeSaveInode] = <<>>]
    /\ written' = 0
    /\ spc' = "write"
    /\ UNCHANGED <<target, rfd, lastRead>>
    /\ UNCHANGED <<lockVars, fnVars, appendVars, runVars, stepVars>>

\* a write of the payload straight into the target file (created when missing),
\* not into a temporary
SaveWriteInPlace ==
    /\ spc = "write"
    /\ written < Len(payload)
    /\ \E ino \in {IF target = NoIno THEN tmpIno ELSE target} :
          /\ target' = ino
          /\ temps' = temps \ {ino}
          /\ files' = [files EXCEPT ![ino] = SubSeq(payload, 1, written + 1)]
    /\ written' = written + 1
    /\ UNCHANGED <<spc, tmpIno, payload, committed, rfd, lastRead>>
    /\ UNCHANGED <<lockVars, fnVars, appendVars, runVars, stepVars>>

\* lines 65-67: tmp_file.write(payload); tmp_file.flush(): the text reaches the
\* temporary file piece by piece
SaveWrite ==
    /\ spc = "write"
    /\ written < Len(payload)
    /\ files' = [files EXCEPT ![tmpIno] = Append(@, payload[written + 1])]
    /\ written' = written + 1
    /\ UNCHANGED <<target, temps, spc, tmpIno, payload, committed, rfd, lastRead>>
    /\ UNCHANGED <<lockVars, fnVars, appendVars, runVars, stepVars>>

\* line 68: os.fsync(tmp_file.fileno()), then the file is closed
SaveFsync ==
    /\ spc = "write"
    /\ written = Len(payload)
    /\ spc' = "replace"
    /\ UNCHANGED <<files, target, temps, tmpIno, payload, written, committed, rfd, lastRead>>
    /\ UNCHANGED <<lockVars, fnVars, appendVars, runVars, stepVars>>

\* lines 65-68 raising OSError (disk full, I/O error): control goes to finally
SaveWriteError ==
    /\ spc = "write"
    /\ spc' = "finally"
    /\ UNCHANGED <<files, target, temps, tmpIno, payload, written, committed, rfd, lastRead>>
    /\ UNCHANGED <<lockVars, fnVars, appendVars, runVars, stepVars>>

\* line 69: os.replace(tmp_name, path)
SaveReplace ==
    /\ spc = "replace"
    /\ target' = tmpIno
    /\ temps' = temps \ {tmpIno}
    /\ files' = Reclaim(files, tmpIno, temps \ {tmpIno}, rfd)
    /\ spc' = "finally"
    /\ UNCHANGED <<tmpIno, payload, written, committed, rfd, lastRead>>
    /\ UNCHANGED <<lockVars, fnVars, appendVars, runVars, stepVars>>

\* lines 70-72: finally: if os.path.exists(tmp_name): os.unlink(tmp_name)
SaveFinally ==
    /\ spc = "finally"
    /\ temps' = temps \ {tmpIno}
    /\ files' = Reclaim(files, target, temps \ {tmpIno}, rfd)
    /\ tmpIno' = NoIno
    /\ spc' = "idle"
    /\ payload' = <<>>
    /\ written' = 0
    /\ committed' = Missing
    /\ UNCHANGED <<target, rfd, lastRead>>
    /\ UNCHANGED <<lockVars, fnVars, appendVars, runVars, stepVars>>

\* the saving process is killed: nothing of save_state runs any more
SaveKill ==
    /\ spc # "idle"
    /\ spc' = "idle"
    /\ tmpIno' = NoIno
    /\ payload' = <<>>
    /\ written' = 0
    /\ committed' = Missing
    /\ UNCHANGED <<files, target, temps, rfd, lastRead>>
    /\ UNCHANGED <<lockVars, fnVars, appendVars, runVars, stepVars>>

\* a reader opens the state path (state.py line 48, path.read_text)
ReadOpen ==
    /\ rfd = NoIno
    /\ target # NoIno
    /\ rfd' = target
    /\ UNCHANGED <<files, target, temps, spc, tmpIno, payload, written, committed, lastRead>>
    /\ UNCHANGED <<lockVars, fnVars, appendVars, runVars, stepVars>>

\* the reader reads the file it opened and closes it
ReadAll ==
    /\ rfd # NoIno
    /\ lastRead' = files[rfd]
    /\ rfd' = NoIno
    /\ files' = Reclaim(files, target, temps, NoIno)
    /\ UNCHANGED <<target, temps, spc, tmpIno, payload, written, committed>>
    /\ UNCHANGED <<lockVars, fnVars, appendVars, runVars, stepVars>>

SaveNext ==
    \/ SaveBegin
    \/ SaveWrite
    \/ SaveFsync
    \/ SaveWriteError
    \/ SaveReplace
    \/ SaveFinally
    \/ SaveKill
    \/ ReadOpen
    \/ ReadAll

-----------------------------------------------------------------------------
(* Time. The clock counts minutes in UTC; a datetime's date() is its day.   *)

\* the UTC days the runs fall on: the first day and the days after it
LaterDays == {1}
Days == {0} \cup LaterDays

MinutesPerDay == 24 * 60
\* the times of day at which things happen: on the first day often enough to
\* use up the daily quota, on later days right after midnight and at the end
\* of a cooldown that began one minute before midnight
FirstDayMarks == {0, 60, 120, MinutesPerDay - 1}
LaterDayMarks == {0, 59}
Clock == FirstDayMarks \cup {d * MinutesPerDay + m : d \in LaterDays, m \in LaterDayMarks}

\* Python values: None, strings that are no ISO timestamp, ISO timestamps
None == <<"none", 0>>
EmptyStr == <<"empty", 0>>
Garbage == <<"garbage", 0>>

\* datetime.isoformat() of an aware UTC datetime, and of a naive one
IsoFormat(t) == <<"iso+00:00", t>>
IsoNaive(t) == <<"iso", t>>

\* now.date().isoformat()
DateIso(t) == <<"date", t \div MinutesPerDay>>

\* whether datetime.fromisoformat(str(v)) returns (it raises ValueError otherwise)
Parses(v) == v[1] \in {"iso+00:00", "iso"}

\* datetime.fromisoformat, a naive result taken as UTC (breaking.py lines 115-118)
FromIso(v) == v[2]

\* Python truthiness of a value read from the state dict
Truthy(v) == v # None /\ v # EmptyStr

\* dict.get(key, default)
Get(state, key, default) == IF key \in DOMAIN state THEN state[key] ELSE default

\* the dict with state[key] = value assigned
Put(state, key, value) ==
    [k \in DOMAIN state \cup {key} |-> IF k = key THEN value ELSE state[k]]

-----------------------------------------------------------------------------
(* AlertThrottle: breaking.py lines 20-22 and 100-119.                      *)

MAX_ALERTS_PER_DAY == 3
COOLDOWN_MINUTES == 60

\* a reset that moves the date marker and forgets to clear the counter
ResetDateOnly(state, t) ==
    IF Get(state, "today_date", None) # DateIso(t)
    THEN Put(state, "today_date", DateIso(t))
    ELSE state

\* a reset that clears the counter whatever the stored date
ResetEveryRun(state, t) ==
    Put(Put(state, "alerts_today", 0), "today_date", DateIso(t))

\* breaking.py lines 100-104
reset_daily_counter(state, t) ==
    IF Get(state, "today_date", None) # DateIso(t)
    THEN Put(Put(state, "alerts_today", 0), "today_date", DateIso(t))
    ELSE state

\* a quota test that lets one alert too many through
CanAlertOffByOne(state, t) ==
    IF Get(state, "alerts_today", 0) > MAX_ALERTS_PER_DAY THEN FALSE
    ELSE LET last == Get(state, "last_alert_time", None)
         IN IF ~Truthy(last) THEN TRUE
            ELSE IF ~Parses(last) THEN TRUE
            ELSE (t - FromIso(last)) * 60 >= COOLDOWN_MINUTES * 60

\* a throttle without the cooldown test
CanAlertNoCooldown(state, t) ==
    Get(state, "alerts_today", 0) < MAX_ALERTS_PER_DAY

\* a throttle that fails closed on an unparseable last_alert_time
CanAlertFailClosed(state, t) ==
    IF Get(state, "alerts_today", 0) >= MAX_ALERTS_PER_DAY THEN FALSE
    ELSE LET last == Get(state, "last_alert_time", None)
         IN IF ~Truthy(last) THEN TRUE
            ELSE IF ~Parses(last) THEN FALSE
            ELSE (t - FromIso(last)) * 60 >= COOLDOWN_MINUTES * 60

\* breaking.py lines 107-119
can_alert(state, t) ==
    IF Get(state, "alerts_today", 0) >= MAX_ALERTS_PER_DAY THEN FALSE
    ELSE LET last == Get(state, "last_alert_time", None)
         IN IF ~Truthy(last) THEN TRUE
            ELSE IF ~Parses(last) THEN TRUE
            ELSE (t - FromIso(last)) * 60 >= COOLDOWN_MINUTES * 60

(* The two functions applied to drawn inputs *)

\* the largest alerts_today drawn, and how often the reset is applied in a row
MaxCount == 4
MaxApply == 2

LastAlertValues == {None, EmptyStr, Garbage} \cup {IsoFormat(t) : t \in Clock}
                     \cup {IsoNaive(t) : t \in Clock}

ThrottleStates ==
    UNION {
        {[k \in K |->
            CASE k = "alerts_today" -> a
              [] k = "today_date" -> d
              [] k = "last_alert_time" -> l] :
            a \in 0..MaxCount, d \in {DateIso(t) : t \in Clock}, l \in LastAlertValues}
        : K \in SUBSET {"alerts_today", "today_date", "last_alert_time"}}

ThrottleInit ==
    /\ tState \in ThrottleStates
    /\ tInput = tState
    /\ tNow \in Clock
    /\ tPrev = tState
    /\ tOp = "none"
    /\ tResult = FALSE
    /\ tCount = 0
    /\ tCadence = "daily"

ApplyCanAlert ==
    /\ tResult' = can_alert(tState, tNow)
    /\ tPrev' = tState
    /\ tOp' = "can_alert"
    /\ UNCHANGED <<tInput, tState, tNow, tCount, tCadence>>
    /\ UNCHANGED <<lockVars, saveVars, runVars, stepVars, appendVars>>

ApplyReset ==
    /\ tCount < MaxApply
    /\ tState' = reset_daily_counter(tState, tNow)
    /\ tPrev' = tState
    /\ tOp' = "reset"
    /\ tCount' = tCount + 1
    /\ UNCHANGED <<tInput, tNow, tResult, tCadence>>
    /\ UNCHANGED <<lockVars, saveVars, runVars, stepVars, appendVars>>

ThrottleNext == ApplyCanAlert \/ ApplyReset

-----------------------------------------------------------------------------
(* BreakingClassifier and digest: breaking.py lines 24-65.                  *)
(* A title is its sequence of lower-cased words plus a serial number that   *)
(* tells the articles of the source apart; each pattern is the set of the   *)
(* vocabulary's words it matches.                                           *)

ENTITIES == {"openai", "anthropic", "claude"}
ACTIONS_PATTERN == {"launches", "released"}
NEGATIVE == {"podcast", "webinar"}

\* pattern.search(title)
Search(pattern, title) == \E i \in 1..Len(title.words) : title.words[i] \in pattern

\* a classifier without the negative override
IsBreakingNoVeto(title) ==
    Search(ENTITIES, title) /\ Search(ACTIONS_PATTERN, title)

\* breaking.py lines 53-60
is_breaking(title) ==
    IF ~Search(ENTITIES, title) THEN FALSE
    ELSE IF ~Search(ACTIONS_PATTERN, title) THEN FALSE
    ELSE IF Search(NEGATIVE, title) THEN FALSE
    ELSE TRUE

\* breaking.py lines 63-65: sha256 of "title|link|source", 16 hex digits; the
\* digest depends on these three fields and on nothing else of the article
article_hash(title, link, source) == <<"sha256", title, "|", link, "|", source>>

-----------------------------------------------------------------------------
(* The tier-1 source and what it returns to a run.                          *)

\* how many articles the source publishes in all
MaxArticles == 5

\* the feed lists the newest MaxItems articles (max_items, lines 222-227)
MaxItems == 3

\* how many articles appear between two runs
FreshChoices == {0, 1, 2}

Min(a, b) == IF a < b THEN a ELSE b

SourceName == "Tier1 Feed"

TitleWords(i) ==
    CASE i % 7 = 0 -> <<"openai", "launches", "podcast">>
      [] i % 7 = 3 -> <<"general", "ecosystem", "update">>
      [] i % 2 = 1 -> <<"openai", "launches", "gpt">>
      [] OTHER -> <<"anthropic", "released", "claude">>

Article(i, date) ==
    [title |-> [words |-> TitleWords(i), no |-> i],
     link |-> <<"https://example.com/", i>>,
     date |-> date]

\* the newest k of the hi articles published, newest first; with dup the newest
\* is listed once more with changed content (another date)
FeedOf(hi, k, dup) ==
    [j \in 1..k |-> Article(hi - j + 1, "2026-02-24")]
      \o (IF dup /\ k > 0 THEN <<Article(hi, "2026-02-25")>> ELSE <<>>)

\* the other tier-1 sources, polled after the first (line 219: the run loops
\* over every candidate, each returning at most max_items articles): between
\* two runs they publish, all together, nothing or a burst of new articles, none
\* of them breaking; their articles differ in their links, and are listed here
\* under one source name
OtherSource == "Tier1 Others"

OtherArticle(i) ==
    [title |-> [words |-> <<"general", "ecosystem", "update">>, no |-> i],
     link |-> <<"https://example.org/", i>>,
     date |-> "2026-02-24"]

\* the articles lo+1 .. lo+n of the other sources, which publish one seen
\* window of articles in all
BurstOf(lo, n) == [j \in 1..n |-> OtherArticle(lo + j)]

-----------------------------------------------------------------------------
(* RunOrchestrator, breaking path: breaking.py lines 68-82 and 203-276.     *)

MAX_SEEN_IDS == 200

SendOutcomes == {"ok", "failed", "notfound"}

\* breaking.py lines 68-82
load_breaking_state(file, t) ==
    IF file # {} THEN CHOOSE data \in file : TRUE
    ELSE [last_check |-> None,
          seen_ids |-> <<>>,
          alerts_today |-> 0,
          today_date |-> DateIso(t),
          last_alert_time |-> None]

InSeq(x, seq) == \E i \in 1..Len(seq) : seq[i] = x

\* a scan that never takes the `continue` of a seen digest
NeverSeen(digest, seen) == FALSE

\* line 235: digest in seen_set (seen_set holds exactly the entries of seen_list)
AlreadySeen(digest, seen) == InSeq(digest, seen)

\* lines 239-240: what a match keeps of an article a of the source name
Listed(a, name) == [title |-> a.title, link |-> a.link, source |-> name]

\* a loop body that records the digests of the breaking articles only
ScanOneMatchesOnly(a, name, acc) ==
    IF a.title.words # <<>> /\ is_breaking(a.title)
          /\ ~InSeq(article_hash(a.title, a.link, name), acc.seen)
    THEN [acc EXCEPT !.seen = Append(@, article_hash(a.title, a.link, name)),
                     !.matches = Append(@, Listed(a, name))]
    ELSE acc

\* a loop body that does not record the digest of an article it matched
ScanOneForgetsMatches(a, name, acc) ==
    IF a.title.words = <<>> THEN acc
    ELSE IF InSeq(article_hash(a.title, a.link, name), acc.seen)
    THEN [acc EXCEPT !.skips = @ + 1]
    ELSE IF is_breaking(a.title)
    THEN [acc EXCEPT !.matches = Append(@, Listed(a, name))]
    ELSE [acc EXCEPT !.seen = Append(@, article_hash(a.title, a.link, name))]

\* lines 233-240: the body of the loop for one article of the source name; acc
\* is the seen list, the matches so far and the count of entries skipped as seen
ScanOne(a, name, acc) ==
    IF a.title.words = <<>> THEN acc
    ELSE IF AlreadySeen(article_hash(a.title, a.link, name), acc.seen)
    THEN [acc EXCEPT !.skips = @ + 1]
    ELSE IF is_breaking(a.title)
    THEN [acc EXCEPT !.seen = Append(@, article_hash(a.title, a.link, name)),
                     !.matches = Append(@, Listed(a, name))]
    ELSE [acc EXCEPT !.seen = Append(@, article_hash(a.title, a.link, name))]

\* lines 229-240: the loop over articles[lo..hi] in order; the first half is
\* scanned to its end before the second half starts from its result
RECURSIVE ScanArticles(_, _, _, _, _)
ScanArticles(articles, name, lo, hi, acc) ==
    IF lo > hi THEN acc
    ELSE IF lo = hi THEN ScanOne(articles[lo], name, acc)
    ELSE LET first == ScanArticles(articles, name, lo, (lo + hi) \div 2, acc)
         IN  CASE first.skips >= acc.skips ->
                  ScanArticles(articles, name, (lo + hi) \div 2 + 1, hi, first)

\* a run that persists no seen list
TrimAll(seen) == <<>>

\* a trim that keeps the oldest entries
TrimKeepOldest(seen) ==
    IF Len(seen) > MAX_SEEN_IDS THEN SubSeq(seen, 1, MAX_SEEN_IDS) ELSE seen

\* lines 242-243
TrimSeen(seen) ==
    IF Len(seen) > MAX_SEEN_IDS
    THEN SubSeq(seen, Len(seen) - MAX_SEEN_IDS + 1, Len(seen))
    ELSE seen

NoState == <<>>

\* lines 254-270: the loop over the matches; run is [now, dry]. The result is
\* the state dict and the matches appended to sent_matches
\* an alert loop that counts and records every match, dry run or not
AlertLoopCountsAll(ms, i, state, sent, run) ==
    [state |-> IF ms = <<>> THEN state
               ELSE Put(Put(state, "alerts_today", Get(state, "alerts_today", 0) + Len(ms)),
                        "last_alert_time", IsoFormat(run.now)),
     sent |-> ms]

\* an alert loop in which a throttled match uses up quota all the same
RECURSIVE AlertLoopThrottleCounts(_, _, _, _, _)
AlertLoopThrottleCounts(ms, i, state, sent, run) ==
    IF i > Len(ms) THEN [state |-> state, sent |-> sent]
    ELSE IF ~run.dry /\ ~can_alert(state, run.now)
    THEN AlertLoopThrottleCounts(ms, i + 1,
                   Put(state, "alerts_today", Get(state, "alerts_today", 0) + 1),
                   sent, run)
    ELSE IF run.dry
    THEN AlertLoopThrottleCounts(ms, i + 1, state, sent, run)
    ELSE AlertLoopThrottleCounts(ms, i + 1,
                   Put(Put(state, "alerts_today", Get(state, "alerts_today", 0) + 1),
                       "last_alert_time", IsoFormat(run.now)),
                   Append(sent, ms[i]), run)

RECURSIVE AlertLoop(_, _, _, _, _)
AlertLoop(ms, i, state, sent, run) ==
    IF i > Len(ms) THEN [state |-> state, sent |-> sent]
    ELSE IF ~run.dry /\ ~can_alert(state, run.now)
    THEN AlertLoop(ms, i + 1, state, sent, run)
    ELSE IF run.dry
    THEN AlertLoop(ms, i + 1, state, sent, run)
    ELSE AlertLoop(ms, i + 1,
                   Put(Put(state, "alerts_today", Get(state, "alerts_today", 0) + 1),
                       "last_alert_time", IsoFormat(run.now)),
                   Append(sent, ms[i]), run)

\* how many of the matches in sent are about article number i
RECURSIVE CountOf(_, _)
CountOf(sent, i) ==
    IF sent = <<>> THEN 0
    ELSE (IF Head(sent).title.no = i THEN 1 ELSE 0) + CountOf(Tail(sent), i)

\* a state file left by earlier runs: the quota of the first day used up, the
\* time of the last alert unreadable
QuotaSpentState ==
    [last_check |-> IsoFormat(0),
     seen_ids |-> <<>>,
     alerts_today |-> MAX_ALERTS_PER_DAY,
     today_date |-> DateIso(0),
     last_alert_time |-> Garbage]

\* the runs start without a state file or with one of an earlier day's use
RunInit ==
    /\ clock = 0
    /\ published = 0
    /\ flood = 0
    /\ disk \in {{}, {QuotaSpentState}}
    /\ log = <<>>
    /\ dryRun = FALSE
    /\ atLoad = [alerts_today |-> 0, today_date |-> None]
    /\ returned = <<>>
    /\ skips = 0
    /\ matches = <<>>
    /\ sentMatches = <<>>
    /\ sendResult = "none"
    /\ alertCount = [d \in Days |-> 0]
    /\ lastAlertAt = -1
    /\ tooClose = FALSE
    /\ alertsOf = [i \in 1..MaxArticles |-> 0]

\* run_breaking under the lock, lines 203-276: load, day rollover, scan of the
\* source, seen window, last_check, the alerts, the log section, the save.
\* t is now, fresh the articles published since the last run, k the length of
\* the feed, burst the new articles of the other sources; outcome is what the
\* notification sender does in this run.
Run(t, dry, fresh, k, dup, burst) ==
    /\ t >= clock
    /\ published + fresh <= MaxArticles
    /\ k <= published + fresh
    /\ flood + burst <= MAX_SEEN_IDS
    /\ \E st0 \in {load_breaking_state(disk, t)} :
       \E st1 \in {reset_daily_counter(st0, t)} :
       \E feed \in {FeedOf(published + fresh, k, dup)} :
       \E sc1 \in {ScanArticles(feed, SourceName, 1, Len(feed),
                                [seen |-> Get(st1, "seen_ids", <<>>),
                                 matches |-> <<>>, skips |-> 0])} :
       \E sc \in {ScanArticles(BurstOf(flood, burst), OtherSource, 1, burst, sc1)} :
       \E st2 \in {Put(Put(st1, "seen_ids", TrimSeen(sc.seen)), "last_check", IsoFormat(t))} :
       \E al \in {AlertLoop(sc.matches, 1, st2, <<>>, [now |-> t, dry |-> dry])} :
       \E outcome \in (IF al.sent = <<>> THEN {"ok"} ELSE SendOutcomes) :
       \E n \in {IF outcome = "notfound" THEN 0 ELSE Len(al.sent)} :
          /\ disk' = {al.state}
          /\ log' = IF ~dry /\ al.sent # <<>>
                    THEN Append(log, [date |-> DateIso(t), items |-> al.sent])
                    ELSE log
          /\ atLoad' = [alerts_today |-> Get(st0, "alerts_today", 0),
                        today_date |-> Get(st0, "today_date", None)]
          /\ returned' = [j \in 1..Len(feed) |-> Listed(feed[j], SourceName)]
                            \o [j \in 1..burst |-> Listed(OtherArticle(flood + j), OtherSource)]
          /\ skips' = sc.skips
          /\ matches' = sc.matches
          /\ sentMatches' = al.sent
          /\ sendResult' = IF al.sent = <<>> THEN "none" ELSE outcome
          /\ alertCount' = [alertCount EXCEPT ![t \div MinutesPerDay] = @ + n]
          /\ lastAlertAt' = IF n > 0 THEN t ELSE lastAlertAt
          /\ tooClose' = \/ tooClose
                         \/ n > 1
                         \/ n > 0 /\ lastAlertAt >= 0 /\ t - lastAlertAt < COOLDOWN_MINUTES
          /\ alertsOf' = [i \in 1..MaxArticles |->
                            alertsOf[i] + (IF n > 0 THEN CountOf(al.sent, i) ELSE 0)]
    /\ clock' = t
    /\ dryRun' = dry
    /\ published' = published + fresh
    /\ flood' = flood + burst
    /\ UNCHANGED <<lockVars, saveVars, fnVars, appendVars, stepVars>>

\* the runs of the first source alone; the feed lists its newest article twice
\* only in runs that find exactly one new article
Next ==
    \E t \in Clock, dry \in BOOLEAN, fresh \in FreshChoices :
    \E dup \in (IF fresh = 1 THEN BOOLEAN ELSE {FALSE}) :
       Run(t, dry, fresh, Min(MaxItems, published + fresh), dup, 0)

\* runs with bursts from the other sources: non-dry runs at a few times, the
\* other sources publishing nothing, one article less than a whole seen window,
\* or a whole window
WindowClock == {0, COOLDOWN_MINUTES}
BurstChoices == {0, MAX_SEEN_IDS - 1, MAX_SEEN_IDS}

WindowNext ==
    \E t \in WindowClock, fresh \in {0, 1}, burst \in BurstChoices :
       Run(t, FALSE, fresh, Min(MaxItems, published + fresh), FALSE, burst)

(* The two loaders applied to drawn file contents: state.py lines 44-57 and  *)
(* breaking.py lines 68-82.  A file holds bytes; read_text decodes them.     *)

\* bytes that are no UTF-8 text
Undecodable == <<"0xff">>

\* the text of a JSON value that is no object
JsonArray == <<"[", "]">>

\* what a call does: it returns a value, or an exception leaves it
Returned(v) == [raised |-> "no", value |-> v]
Raised(e) == [raised |-> e, value |-> NoState]

\* path.read_text(encoding="utf-8"): the text, or UnicodeDecodeError
ReadText(content) ==
    IF content = Undecodable THEN Raised("UnicodeDecodeError") ELSE Returned(content)

\* state.py lines 44-57 on the content of the file: `except (OSError,
\* json.JSONDecodeError)` catches what json.loads raises, and not the
\* UnicodeDecodeError of read_text, which is a ValueError of another kind
LoadStateCall(content) ==
    IF content = Missing THEN Returned(NoState)
    ELSE IF ReadText(content).raised # "no" THEN Raised(ReadText(content).raised)
    ELSE IF ReadText(content).value = JsonArray THEN Returned(NoState)
    ELSE Returned(LoadStateFrom(ReadText(content).value))

\* breaking.py lines 68-82 on the content of the file
LoadBreakingCall(content, t) ==
    IF content = Missing THEN Returned(load_breaking_state({}, t))
    ELSE IF ReadText(content).raised # "no" THEN Raised(ReadText(content).raised)
    ELSE IF ReadText(content).value = JsonArray THEN Returned(load_breaking_state({}, t))
    ELSE IF ~JsonLoads(ReadText(content).value).ok THEN Returned(load_breaking_state({}, t))
    ELSE Returned(JsonLoads(ReadText(content).value).value)

\* the contents drawn: no file, bytes that do not decode, an array, and every
\* beginning of the text of a saved state, the whole text included
ContentKinds == {"missing", "bytes", "array", "text"}
DrawnContent(kind, state, n) ==
    CASE kind = "missing" -> Missing
      [] kind = "bytes" -> Undecodable
      [] kind = "array" -> JsonArray
      [] kind = "text" -> SubSeq(Dumps(state), 1, n)

LoadInit ==
    /\ \E kind \in ContentKinds, state \in SaveStates :
       \E n \in (IF kind = "text" THEN 0..Len(Dumps(state)) ELSE {0}) :
          tInput = DrawnContent(kind, state, n)
    /\ tState = NoState
    /\ tNow \in Clock
    /\ tPrev = NoState
    /\ tOp = "none"
    /\ tResult = FALSE
    /\ tCount = 0
    /\ tCadence = "daily"

ApplyLoadState ==
    /\ tOp = "none"
    /\ tResult' = LoadStateCall(tInput)
    /\ tOp' = "load_state"
    /\ UNCHANGED <<tInput, tState, tNow, tPrev, tCount, tCadence>>
    /\ UNCHANGED <<lockVars, saveVars, runVars, stepVars, appendVars>>

ApplyLoadBreaking ==
    /\ tOp = "none"
    /\ tResult' = LoadBreakingCall(tInput, tNow)
    /\ tOp' = "load_breaking_state"
    /\ UNCHANGED <<tInput, tState, tNow, tPrev, tCount, tCadence>>
    /\ UNCHANGED <<lockVars, saveVars, runVars, stepVars, appendVars>>

LoadNext == ApplyLoadState \/ ApplyLoadBreaking

(* is_breaking applied to drawn titles *)

\* the longest title drawn, in words
MaxWords == 3

\* the words of the titles: those of the three patterns and some of none
Vocabulary ==
    ENTITIES \cup ACTIONS_PATTERN \cup NEGATIVE \cup {"general", "ecosystem", "update", "gpt"}

DrawnTitles == UNION {[1..n -> Vocabulary] : n \in 0..MaxWords}

ClassifyInit ==
    /\ tInput \in {[words |-> w, no |-> 0] : w \in DrawnTitles}
    /\ tState = NoState
    /\ tNow = 0
    /\ tPrev = NoState
    /\ tOp = "none"
    /\ tResult = FALSE
    /\ tCount = 0
    /\ tCadence = "daily"

ApplyIsBreaking ==
    /\ tOp = "none"
    /\ tResult' = is_breaking(tInput)
    /\ tOp' = "is_breaking"
    /\ UNCHANGED <<tInput, tState, tNow, tPrev, tCount, tCadence>>
    /\ UNCHANGED <<lockVars, saveVars, runVars, stepVars, appendVars>>

ClassifyNext == ApplyIsBreaking

-----------------------------------------------------------------------------
(* CadenceScheduler: state.py lines 35-41 and 75-93.                        *)

\* the cadence classes of the configuration, and a class the table lacks
Cadences == {"daily", "twice_weekly", "weekly", "biweekly", "monthly"}
UnknownCadence == "hourly"

\* lines 35-41 and 81: _CADENCE_DAYS.get(cadence, 1)
CADENCE_DAYS(cadence) ==
    CASE cadence = "daily" -> 0
      [] cadence = "twice_weekly" -> 2
      [] cadence = "weekly" -> 5
      [] cadence = "biweekly" -> 10
      [] cadence = "monthly" -> 25
      [] OTHER -> 1

\* timedelta(days=n), in minutes
TimedeltaDays(n) == n * MinutesPerDay

\* a scheduler for which a source is due only after more than the interval
ShouldFetchStrict(state, source_name, cadence, now) ==
    IF ~Truthy(Get(state, source_name, None)) THEN TRUE
    ELSE IF ~Parses(Get(state, source_name, None)) THEN TRUE
    ELSE now - FromIso(Get(state, source_name, None)) > TimedeltaDays(CADENCE_DAYS(cadence))

\* a scheduler for which a source is never due at the instant of its timestamp
ShouldFetchLater(state, source_name, cadence, now) ==
    IF ~Truthy(Get(state, source_name, None)) THEN TRUE
    ELSE IF ~Parses(Get(state, source_name, None)) THEN TRUE
    ELSE /\ now - FromIso(Get(state, source_name, None)) >= TimedeltaDays(CADENCE_DAYS(cadence))
         /\ now # FromIso(Get(state, source_name, None))

\* a scheduler that fails closed on a timestamp it cannot parse
ShouldFetchFailClosed(state, source_name, cadence, now) ==
    IF ~Truthy(Get(state, source_name, None)) THEN TRUE
    ELSE IF ~Parses(Get(state, source_name, None)) THEN FALSE
    ELSE now - FromIso(Get(state, source_name, None)) >= TimedeltaDays(CADENCE_DAYS(cadence))

\* lines 75-93; now is always given (cli.py line 85), and FromIso takes a
\* timestamp without timezone as UTC (lines 91-92)
should_fetch(state, source_name, cadence, now) ==
    IF ~Truthy(Get(state, source_name, None)) THEN TRUE
    ELSE IF ~Parses(Get(state, source_name, None)) THEN TRUE
    ELSE now - FromIso(Get(state, source_name, None)) >= TimedeltaDays(CADENCE_DAYS(cadence))

(* should_fetch applied to drawn inputs *)

\* the source asked about
Asked == "src"

\* the instants of the recorded timestamps, and the instants of now: around
\* every interval of the table after a timestamp
StampTimes == {0, 60}
IntervalDays == {0, 1, 2, 5, 10, 25}
CadenceNows == {s + TimedeltaDays(d) + m : s \in StampTimes, d \in IntervalDays, m \in {-1, 0, 1}}

CadenceValues == {None, EmptyStr, Garbage} \cup {IsoFormat(s) : s \in StampTimes}
                    \cup {IsoNaive(s) : s \in StampTimes}

CadenceStates == {NoState} \cup {[k \in {Asked} |-> v] : v \in CadenceValues}

CadenceInit ==
    /\ tState \in CadenceStates
    /\ tInput = tState
    /\ tNow \in CadenceNows
    /\ tCadence \in Cadences \cup {UnknownCadence}
    /\ tPrev = tState
    /\ tOp = "none"
    /\ tResult = FALSE
    /\ tCount = 0

ApplyShouldFetch ==
    /\ tResult' = should_fetch(tState, Asked, tCadence, tNow)
    /\ tPrev' = tState
    /\ tOp' = "should_fetch"
    /\ UNCHANGED <<tInput, tState, tNow, tCount, tCadence>>
    /\ UNCHANGED <<lockVars, saveVars, runVars, stepVars, appendVars>>

CadenceNext == ApplyShouldFetch

-----------------------------------------------------------------------------
(* Deduplicator, daily-fetch path: log.py lines 11-60, 78-114.              *)
(* A text is a sequence of tokens: words, and marks that stand alone.  A    *)
(* title is such a text; the log is a sequence of lines of tokens.          *)

\* the tokens that re.sub(r"[^\w\s]", "", ...) deletes altogether
Marks == {":", "!", "-", "#", ">", "**", "[", "](", ")", "(", "\\"}

\* title.lower() with the characters that are neither \w nor \s deleted, on
\* one token
Normal(tok) ==
    CASE tok \in Marks -> ""
      [] tok = "OpenAI" -> "openai"
      [] tok = "AI" -> "ai"
      [] tok = "model:" -> "model"
      [] OTHER -> tok

\* len() of a normalized word of the vocabulary
Letters(word) ==
    CASE word = "" -> 0
      [] word \in {"ai", "is", "on", "it", "so", "we", "do", "go"} -> 2
      [] word \in {"new", "for"} -> 3
      [] word \in {"read", "more", "beta", "over", "time", "star", "team"} -> 4
      [] word \in {"ships", "model", "today", "alpha", "first", "third", "fifth", "sixth",
                   "count", "story", "about", "every"} -> 5
      [] word \in {"openai", "second", "fourth", "report", "models"} -> 6
      [] word = "language" -> 8
      [] word = "reasoning" -> 9
      [] word \in {"developers", "cumulative"} -> 10
      [] OTHER -> 12

NormalTokens(title) == [i \in 1..Len(title) |-> Normal(title[i])]

\* .split(): the words of the normalized title
NormalWords(title) == SelectSeq(NormalTokens(title), LAMBDA w : w # "")

RECURSIVE SumLetters(_)
SumLetters(words) ==
    IF words = <<>> THEN 0 ELSE Letters(Head(words)) + SumLetters(Tail(words))

\* len(norm) of lines 38-39 for a title that neither starts nor ends with a
\* mark: the letters and the blanks between the tokens
NormLen(title) ==
    IF title = <<>> THEN 0 ELSE SumLetters(NormalTokens(title)) + Len(title) - 1

\* some of the phrases of lines 42-59
JunkPhrases == {<<"read", "more">>, <<"cumulative", "star", "count", "over", "time">>}

\* log.py lines 37-60
is_junk(title) ==
    IF NormLen(title) < 15 THEN TRUE
    ELSE NormalTokens(title) \in JunkPhrases

First(words, n) == SubSeq(words, 1, IF Len(words) < n THEN Len(words) ELSE n)

\* log.py lines 31-34: the first six words of more than two letters
title_prefix(title) ==
    First(SelectSeq(NormalWords(title), LAMBDA w : Letters(w) > 2), 6)

\* log.py lines 78-83: a leading markdown control character is escaped
sanitize_text(text) ==
    IF text # <<>> /\ Head(text) \in {"#", "-", ">", "!"} THEN <<"\\">> \o text ELSE text

\* lines 93-98: the line of one article (articles as fetch_web returns them,
\* without date and summary)
ArticleLine(article) ==
    <<"-", "**">>
       \o (IF article.link # <<>>
           THEN <<"[">> \o sanitize_text(article.title) \o <<"](">> \o article.link \o <<")">>
           ELSE sanitize_text(article.title))
       \o <<"**">>

\* lines 86-100: the lines of a batch under its heading "## date (Automated
\* Daily Scan)"; batch is the sequence of the pairs <<source, new articles>> in
\* the order of the dict
RECURSIVE format_markdown(_, _)
format_markdown(batch, date_str) ==
    IF batch = <<>> THEN <<>>
    ELSE format_markdown(SubSeq(batch, 1, Len(batch) - 1), date_str)
         \o (IF batch[Len(batch)][2] = <<>> THEN <<>>
             ELSE <<<<"###", batch[Len(batch)][1]>>>>
                  \o [i \in 1..Len(batch[Len(batch)][2]) |->
                         ArticleLine(batch[Len(batch)][2][i])])

\* what follows the title group in the pattern of line 18, from position p of
\* the line: an optional link "](...)" up to the first ")", an optional closing
\* quote, and "**"
ClosesAt(line, p) ==
    /\ p <= Len(line)
    /\ \/ line[p] = "**"
       \/ line[p] \in {"\"", "rdquo"} /\ p + 1 <= Len(line) /\ line[p + 1] = "**"

TailMatches(line, p) ==
    \/ /\ p <= Len(line) /\ line[p] = "]("
       /\ \E m \in (p + 1)..Len(line) :
             /\ line[m] = ")"
             /\ \A q \in (p + 1)..(m - 1) : line[q] # ")"
             /\ ClosesAt(line, m + 1)
    \/ ClosesAt(line, p)

\* the title group (.+?) that starts at position j: the shortest that the rest
\* of the pattern can follow; <<>> when there is none
GroupFrom(line, j) ==
    CHOOSE group \in
        {IF ends = {} THEN <<>>
         ELSE SubSeq(line, j, CHOOSE k \in ends : \A h \in ends : k <= h) :
            ends \in {{k \in j..Len(line) : TailMatches(line, k + 1)}}} :
        TRUE

\* where the title group may start after the "**" at position i: after an
\* optional opening quote and an optional "[", the longer skip tried first
GroupStarts(line, i) ==
    LET q == IF i + 1 <= Len(line) /\ line[i + 1] \in {"\"", "ldquo"} THEN 1 ELSE 0
        b(at) == IF at <= Len(line) /\ line[at] = "[" THEN 1 ELSE 0
    IN  (IF q = 1 THEN (IF b(i + 2) = 1 THEN <<i + 3>> ELSE <<>>) \o <<i + 2>> ELSE <<>>)
        \o (IF b(i + 1) = 1 THEN <<i + 2>> ELSE <<>>) \o <<i + 1>>

\* the first match of the pattern of line 18 in the line at or after position
\* i: the title group, <<>> when the pattern matches nowhere
RECURSIVE FirstBold(_, _)
FirstBold(line, i) ==
    IF i > Len(line) THEN <<>>
    ELSE IF line[i] # "**" THEN FirstBold(line, i + 1)
    ELSE CHOOSE title \in
            {IF hits = <<>> THEN FirstBold(line, i + 1) ELSE hits[1] :
                hits \in {SelectSeq([n \in 1..Len(starts) |-> GroupFrom(line, starts[n])],
                                    LAMBDA group : group # <<>>) :
                             starts \in {GroupStarts(line, i)}}} :
            TRUE

\* log.py lines 11-28 on the lines of the log: the signatures of the bold
\* titles, empty signatures left out (line 21).  An article line of
\* format_markdown has one bold span, and without a double quote in the log
\* the pattern of line 24 matches nothing.
load_title_prefixes(lines) ==
    UNION {{sig \in {title_prefix(title) :
                        title \in {FirstBold(text[h], 1) : h \in 1..Len(text)} \ {<<>>}} :
               sig # <<>>} :
           text \in {lines}}

-----------------------------------------------------------------------------
(* RunOrchestrator step by step: the fetch path, cli.py lines 61-143, and   *)
(* the breaking path, breaking.py lines 203-276, each as the sequence of    *)
(* its steps, any of which may be the last (an exception that is not        *)
(* caught, a kill).  The two commands keep different state files.           *)

\* the configured sources, in configuration order
Sources == <<"a", "b">>
SourceNames == {Sources[i] : i \in 1..Len(Sources)}

\* cli.py lines 124 and 127: f"_zeros:{name}"
ZKey(name) == CASE name = "a" -> "_zeros:a" [] name = "b" -> "_zeros:b"

\* str(n) of an integer, and int() of such a string
Str(n) == <<"str", n>>
IntOf(v) == v[2]

\* how many fetches without a new article in a row the runs go through
MaxZeros == 2

\* how many batches the fetch runs append to the log in all
MaxBatches == 2

\* how many alert sections the breaking runs append to the log in all (a run
\* that ends between its section and its save leaves the quota as it was)
MaxSections == 2

\* the instants of the fetch runs
FetchClock == {TimedeltaDays(d) : d \in {0, 1, 2, 5}}

\* state.json as the first run finds it: missing, or with an entry for the
\* first source that is empty, unparseable, without timezone, or in the future
FirstFiles ==
    {{}} \cup {{[k \in {Sources[1]} |-> v]} :
                 v \in {EmptyStr, Garbage, IsoNaive(0), IsoFormat(TimedeltaDays(1))}}

\* state.py lines 44-57 on a file that holds a map of strings, or is missing
load_state(file) == IF file = {} THEN NoState ELSE CHOOSE st \in file : TRUE

\* dict.pop(key, None)
Pop(state, key) == [k \in DOMAIN state \ {key} |-> state[k]]

\* a fetch that stamps the source with the start of the first day, not with now
RecordedAtEpoch(state, name, now, new) ==
    Put(Pop(state, ZKey(name)), name, IsoFormat(0))

\* a fetch that stamps the source with now whether it found an article or not
RecordedAlwaysStamps(state, name, now, new) ==
    IF new
    THEN Pop(Put(state, name, IsoFormat(now)), ZKey(name))
    ELSE Put(Put(state, name, IsoFormat(now)),
             ZKey(name),
             Str((IF ZKey(name) \in DOMAIN state THEN IntOf(state[ZKey(name)]) ELSE 0) + 1))

\* a fetch with new articles that leaves the counter of empty fetches alone
RecordedKeepsZeros(state, name, now, new) ==
    IF new
    THEN Put(state, name, IsoFormat(now))
    ELSE Put(IF name \in DOMAIN state THEN state ELSE Put(state, name, IsoFormat(now)),
             ZKey(name),
             Str((IF ZKey(name) \in DOMAIN state THEN IntOf(state[ZKey(name)]) ELSE 0) + 1))

\* cli.py line 128: `if zeros >= 5`
ZERO_WARNING == 5

\* cli.py lines 118-127: the state after a due source was fetched, with or
\* without a new article
Recorded(state, name, now, new) ==
    IF new
    THEN Pop(Put(state, name, IsoFormat(now)), ZKey(name))
    ELSE Put(IF name \in DOMAIN state THEN state ELSE Put(state, name, IsoFormat(now)),
             ZKey(name),
             Str((IF ZKey(name) \in DOMAIN state THEN IntOf(state[ZKey(name)]) ELSE 0) + 1))

\* what a source answers to a fetch: the articles parsed, and whether the fetch
\* then failed (a request that raises or times out, a page that cannot be parsed)
Reply(failed, articles) == [failed |-> failed, articles |-> articles]
NoArticles == Reply(FALSE, <<>>)

\* a fetcher that hands on what it had parsed when the fetch failed
FetchKeepsParsed(reply) == reply.articles

\* fetcher.py lines 83-129, fetch_rss and fetch_web: `except Exception` prints
\* the error and returns []
fetch(reply) == IF reply.failed THEN <<>> ELSE reply.articles

\* a loop that holds the titles against the set of the log alone
RECURSIVE NewArticlesLogOnly(_, _, _)
NewArticlesLogOnly(articles, i, acc) ==
    IF i > Len(articles) THEN acc
    ELSE IF is_junk(articles[i].title) \/ title_prefix(articles[i].title) \in acc.prefixes
    THEN NewArticlesLogOnly(articles, i + 1, acc)
    ELSE NewArticlesLogOnly(articles, i + 1, [acc EXCEPT !.new = Append(@, articles[i])])

\* cli.py lines 102-110: the loop over the articles of one source from the
\* i-th on; acc is new_articles and title_prefixes
RECURSIVE NewArticles(_, _, _)
NewArticles(articles, i, acc) ==
    IF i > Len(articles) THEN acc
    ELSE IF is_junk(articles[i].title) THEN NewArticles(articles, i + 1, acc)
    ELSE IF title_prefix(articles[i].title) \in acc.prefixes
    THEN NewArticles(articles, i + 1, acc)
    ELSE NewArticles(articles, i + 1,
                     [new |-> Append(acc.new, articles[i]),
                      prefixes |-> acc.prefixes \cup {title_prefix(articles[i].title)}])

\* the lines of the log file: the text of its batches one after the other
RECURSIVE LogLines(_)
LogLines(batches) ==
    IF batches = <<>> THEN <<>>
    ELSE LogLines(SubSeq(batches, 1, Len(batches) - 1)) \o batches[Len(batches)].text

\* cli.py lines 138-140: what append_to_log adds for the results of a run
LogEntry(now, batch) ==
    [date |-> DateIso(now),
     sources |-> {batch[i][1] : i \in 1..Len(batch)},
     text |-> format_markdown(batch, DateIso(now))]

\* an article no source has offered before: its title names the source and the
\* number of batches in the log
SourceWord(name) == CASE name = "a" -> "alpha" [] name = "b" -> "beta"
Ordinal(n) == <<"first", "second", "third", "fourth", "fifth", "sixth">>[n + 1]
FreshArticle(name, n) ==
    [title |-> <<SourceWord(name), Ordinal(n), "report", "about", "language", "models">>,
     link |-> <<"https://example.com/", SourceWord(name), Ordinal(n)>>]

\* the fetches without a new article that the runs go through are bounded
ZerosUnder(state, cap) ==
    \A n \in SourceNames : ZKey(n) \in DOMAIN state => IntOf(state[ZKey(n)]) <= cap

ZerosWithin(state) == ZerosUnder(state, MaxZeros)

\* cli.py lines 124-132 after a fetch without a new article: whether the
\* warning is printed, from the counter just written
Warns(state, name) ==
    ZKey(name) \in DOMAIN state /\ IntOf(state[ZKey(name)]) >= ZERO_WARNING

\* cli.py lines 85-132, the body of `for source in cfg.sources` for the source
\* name at the time now: a source that is not due is passed over; a due one is
\* fetched, its articles go through the loop of lines 102-110, and the state
\* records new articles or a fetch without any.  run is the state dict, the
\* results, title_prefixes, what was fetched so far and the warnings printed
PollOne(name, reply, run, now) ==
    IF ~should_fetch(run.mem, name, cadenceOf[name], now) THEN run
    ELSE CHOOSE after \in
            {[mem |-> Recorded(run.mem, name, now, d.new # <<>>),
              results |-> IF d.new # <<>> THEN run.results \cup {name} ELSE run.results,
              accepted |-> IF d.new # <<>> THEN Append(run.accepted, <<name, d.new>>)
                           ELSE run.accepted,
              prefixes |-> d.prefixes,
              polled |-> run.polled \cup {name},
              offered |-> Append(run.offered, <<name, reply>>),
              warned |-> IF d.new = <<>>
                            /\ Warns(Recorded(run.mem, name, now, FALSE), name)
                         THEN run.warned \cup {name} ELSE run.warned] :
               d \in {NewArticles(fetch(reply), 1, [new |-> <<>>, prefixes |-> run.prefixes])}} :
            TRUE

\* lines 82-132: the loop over the sources from the i-th on; replies gives what
\* each source would answer
RECURSIVE PollAll(_, _, _, _)
PollAll(i, replies, run, now) ==
    IF i > Len(Sources) THEN run
    ELSE CHOOSE last \in
            {PollAll(i + 1, replies, next, now) :
               next \in {PollOne(Sources[i], replies[Sources[i]], run, now)}} :
            TRUE

DedupIdle ==
    /\ prefixes = {}
    /\ accepted = <<>>
    /\ offered = <<>>
    /\ before = <<>>
    /\ warned = {}
    /\ streak = [n \in SourceNames |-> 0]

StepIdle ==
    /\ cmd = "none"
    /\ pc = "idle"
    /\ mem = NoState
    /\ fetchFile = {}
    /\ newsLog = <<>>
    /\ writes = 0
    /\ atStart = {}
    /\ nextSrc = 1
    /\ results = {}
    /\ polled = {}
    /\ cadenceOf = [n \in SourceNames |-> "daily"]
    /\ lastExit = "none"
    /\ found = <<>>
    /\ handled = <<>>
    /\ DedupIdle

\* the fetch command, invoked again and again: any cadence class for the first
\* source, daily for the others
FetchInit ==
    /\ cmd = "fetch"
    /\ pc = "idle"
    /\ mem = NoState
    /\ fetchFile \in FirstFiles
    /\ newsLog = <<>>
    /\ writes = 0
    /\ atStart = {}
    /\ nextSrc = 1
    /\ results = {}
    /\ polled = {}
    /\ cadenceOf \in {[n \in SourceNames |-> IF n = Sources[1] THEN c ELSE "daily"] :
                        c \in Cadences \cup {UnknownCadence}}
    /\ lastExit = "none"
    /\ found = <<>>
    /\ handled = <<>>
    /\ DedupIdle

\* the breaking command, invoked again and again
BreakInit ==
    /\ cmd = "breaking"
    /\ pc = "idle"
    /\ mem = NoState
    /\ fetchFile = {}
    /\ newsLog = <<>>
    /\ writes = 0
    /\ atStart = {}
    /\ nextSrc = 1
    /\ results = {}
    /\ polled = {}
    /\ cadenceOf = [n \in SourceNames |-> "daily"]
    /\ lastExit = "none"
    /\ found = <<>>
    /\ handled = <<>>
    /\ DedupIdle

runHistory == <<flood, atLoad, returned, skips, matches, sentMatches, sendResult, alertCount,
                lastAlertAt, tooClose, alertsOf>>

\* cli.py lines 61-80: state = load_state(...), now = datetime.now(timezone.utc),
\* title_prefixes = load_title_prefixes(cfg.log_path); rotate_log (line 75)
\* leaves a log of no more than max_log_lines lines as it is
FetchBegin(t) ==
    /\ cmd = "fetch" /\ pc = "idle"
    /\ t >= clock
    /\ Len(newsLog) < MaxBatches
    /\ clock' = t
    /\ mem' = load_state(fetchFile)
    /\ atStart' = fetchFile
    /\ writes' = 0
    /\ nextSrc' = 1
    /\ results' = {}
    /\ polled' = {}
    /\ lastExit' = "none"
    /\ pc' = "sources"
    /\ prefixes' = load_title_prefixes(LogLines(newsLog))
    /\ accepted' = <<>>
    /\ offered' = <<>>
    /\ warned' = {}
    /\ UNCHANGED <<cmd, fetchFile, newsLog, cadenceOf, found, handled, before, streak>>
    /\ UNCHANGED <<published, disk, log, dryRun, runHistory>>
    /\ UNCHANGED <<lockVars, saveVars, fnVars, appendVars>>

\* lines 85-132, one turn of `for source in cfg.sources`
FetchSource(reply) ==
    /\ pc = "sources" /\ nextSrc <= Len(Sources)
    /\ \E name \in {Sources[nextSrc]} :
       \E r \in {PollOne(name, reply,
                         [mem |-> mem, results |-> results, accepted |-> accepted,
                          prefixes |-> prefixes, polled |-> polled, offered |-> offered,
                          warned |-> warned],
                         clock)} :
          /\ ZerosWithin(r.mem)
          /\ ~should_fetch(mem, name, cadenceOf[name], clock) => reply = NoArticles
          /\ mem' = r.mem
          /\ results' = r.results
          /\ accepted' = r.accepted
          /\ prefixes' = r.prefixes
          /\ polled' = r.polled
          /\ offered' = r.offered
          /\ warned' = r.warned
    /\ nextSrc' = nextSrc + 1
    /\ UNCHANGED <<cmd, pc, fetchFile, newsLog, writes, atStart, cadenceOf, lastExit, found, handled,
                   before, streak>>
    /\ UNCHANGED runVars
    /\ UNCHANGED <<lockVars, saveVars, fnVars, appendVars>>

\* a run that writes the state only when it has something to log
FetchSaveIfNew ==
    /\ pc = "sources" /\ nextSrc > Len(Sources)
    /\ fetchFile' = IF results = {} THEN fetchFile ELSE {mem}
    /\ writes' = IF results = {} THEN writes ELSE writes + 1
    /\ pc' = IF results = {} THEN "idle" ELSE "logging"
    /\ lastExit' = IF results = {} THEN "ok" ELSE lastExit
    /\ UNCHANGED <<cmd, mem, newsLog, atStart, nextSrc, results, polled, cadenceOf, found, handled,
                   dedupVars, zeroVars>>
    /\ UNCHANGED runVars
    /\ UNCHANGED <<lockVars, saveVars, fnVars, appendVars>>

\* lines 134-137: save_state(cfg.state_path, state); without results the run
\* returns 0
FetchSave ==
    /\ pc = "sources" /\ nextSrc > Len(Sources)
    /\ fetchFile' = {mem}
    /\ writes' = writes + 1
    /\ pc' = IF results = {} THEN "idle" ELSE "logging"
    /\ lastExit' = IF results = {} THEN "ok" ELSE lastExit
    /\ UNCHANGED <<cmd, mem, newsLog, atStart, nextSrc, results, polled, cadenceOf, found, handled,
                   dedupVars, zeroVars>>
    /\ UNCHANGED runVars
    /\ UNCHANGED <<lockVars, saveVars, fnVars, appendVars>>

\* lines 138-143: append_to_log(cfg.log_path, format_markdown(results, today))
FetchLog ==
    /\ pc = "logging"
    /\ newsLog' = Append(newsLog, LogEntry(clock, accepted))
    /\ pc' = "idle"
    /\ lastExit' = "ok"
    /\ UNCHANGED <<cmd, mem, fetchFile, writes, atStart, nextSrc, results, polled, cadenceOf,
                   found, handled, dedupVars, zeroVars>>
    /\ UNCHANGED runVars
    /\ UNCHANGED <<lockVars, saveVars, fnVars, appendVars>>

\* the invocation ends where it stands: an exception nothing catches (a
\* fetcher, save_state or append_to_log raising) or a kill
Abort ==
    /\ pc # "idle"
    /\ pc' = "idle"
    /\ lastExit' = "aborted"
    /\ UNCHANGED <<cmd, mem, fetchFile, newsLog, writes, atStart, nextSrc, results, polled,
                   cadenceOf, found, handled, dedupVars, zeroVars>>
    /\ UNCHANGED runVars
    /\ UNCHANGED <<lockVars, saveVars, fnVars, appendVars>>

\* cli.py lines 57-58: the body of `with lockfile(cfg.state_path)` is the whole
\* of _cmd_fetch_locked, here in one step for a configuration with one source
\* that is due: the state is loaded, the source fetched, the state saved, the
\* new article logged, and the body returns 0
LockBodyRun(p, reply) ==
    /\ lpc[p].ph = "body"
    /\ \E d \in {NewArticles(fetch(reply), 1,
                              [new |-> <<>>,
                               prefixes |-> load_title_prefixes(LogLines(newsLog))])} :
          /\ IF d.new # <<>> THEN Len(newsLog) < MaxBatches
             ELSE ZKey(Sources[1]) \in DOMAIN load_state(fetchFile)
                     => IntOf(load_state(fetchFile)[ZKey(Sources[1])]) < MaxZeros
          /\ mem' = Recorded(load_state(fetchFile), Sources[1], clock, d.new # <<>>)
          /\ prefixes' = d.prefixes
          /\ accepted' = IF d.new # <<>> THEN <<<<Sources[1], d.new>>>> ELSE <<>>
    /\ fetchFile' = {mem'}
    /\ newsLog' = IF accepted' # <<>> THEN Append(newsLog, LogEntry(clock, accepted')) ELSE newsLog
    /\ offered' = <<<<Sources[1], reply>>>>
    /\ raising' = [raising EXCEPT ![p] = "no"]
    /\ lpc' = [lpc EXCEPT ![p].ph = "unlock"]
    /\ UNCHANGED <<lockDir, flockOf, fds, exit, wasHolder>>
    /\ warned' = IF accepted' = <<>> /\ Warns(mem', Sources[1]) THEN {Sources[1]} ELSE {}
    /\ UNCHANGED <<cmd, pc, writes, atStart, nextSrc, results, polled, cadenceOf, lastExit,
                   found, handled, before, streak>>
    /\ UNCHANGED <<saveVars, fnVars, appendVars, runVars>>

\* the lock around the fetch run; the source has a new article for every run
GuardedNext ==
    \E p \in Procs :
       \/ LockOpen(p)
       \/ LockFlock(p)
       \/ LockBodyRun(p, Reply(FALSE, <<FreshArticle(Sources[1], Len(newsLog))>>))
       \/ LockUnlock(p)
       \/ LockClose(p)
       \/ LockUnlink(p)
       \/ LockKill(p)

\* each source answers with nothing or with one article not offered before
FreshReplies ==
    IF nextSrc \in 1..Len(Sources)
    THEN {NoArticles, Reply(FALSE, <<FreshArticle(Sources[nextSrc], Len(newsLog))>>)}
    ELSE {}

\* titles a source may list: a story, the same story under a longer title that
\* starts alike, a title of short words only, and a navigation label
Story == <<"OpenAI", "ships", "new", "reasoning", "model:", "for", "developers", "today">>
StoryAgain == <<"OpenAI", "ships", "new", "reasoning", "model", "for", "every", "team">>
ShortWords == <<"AI", "is", "on", "it", "so", "we", "do", "go">>
Label == <<"read", "more">>

Listing(title, link) == [title |-> title, link |-> link]

\* what a source may answer: nothing, the story, the story again followed by
\* the title of short words, the label alone, or a failure after the story was
\* parsed
PollReplies ==
    {NoArticles,
     Reply(FALSE, <<Listing(Story, <<"https://example.com/story">>)>>),
     Reply(FALSE, <<Listing(StoryAgain, <<>>), Listing(ShortWords, <<"https://example.com/short">>)>>),
     Reply(FALSE, <<Listing(Label, <<"https://example.com/more">>)>>),
     Reply(TRUE, <<Listing(Story, <<"https://example.com/story">>)>>)}

FetchNext ==
    \/ \E t \in FetchClock : FetchBegin(t)
    \/ \E reply \in FreshReplies : FetchSource(reply)
    \/ FetchSave
    \/ FetchLog
    \/ Abort

\* cli.py lines 61-143, _cmd_fetch_locked from its first line to `return 0` in
\* one step: load, the loop over the sources, save, log
FetchRun(t, replies, cap) ==
    /\ cmd = "fetch" /\ pc = "idle"
    /\ t >= clock
    /\ Len(newsLog) < MaxBatches
    /\ \E start \in {[mem |-> load_state(fetchFile), results |-> {}, accepted |-> <<>>,
                       prefixes |-> load_title_prefixes(LogLines(newsLog)),
                       polled |-> {}, offered |-> <<>>, warned |-> {}]} :
       \E r \in {PollAll(1, replies, start, t)} :
          /\ ZerosUnder(r.mem, cap)
          /\ mem' = r.mem
          /\ fetchFile' = {r.mem}
          /\ newsLog' = IF r.accepted # <<>> THEN Append(newsLog, LogEntry(t, r.accepted))
                        ELSE newsLog
          /\ results' = r.results
          /\ accepted' = r.accepted
          /\ prefixes' = r.prefixes
          /\ polled' = r.polled
          /\ offered' = r.offered
          /\ warned' = r.warned
          /\ streak' = [n \in SourceNames |->
                           IF n \notin r.polled THEN streak[n]
                           ELSE IF \E i \in 1..Len(r.accepted) : r.accepted[i][1] = n THEN 0
                           ELSE streak[n] + 1]
    /\ before' = offered
    /\ clock' = t
    /\ atStart' = fetchFile
    /\ writes' = 1
    /\ nextSrc' = Len(Sources) + 1
    /\ lastExit' = "ok"
    /\ UNCHANGED <<cmd, pc, cadenceOf, found, handled>>
    /\ UNCHANGED <<published, disk, log, dryRun, runHistory>>
    /\ UNCHANGED <<lockVars, saveVars, fnVars, appendVars>>

\* breaking.py lines 209-210: load_breaking_state, reset_daily_counter
BreakBegin(t, dry, fresh) ==
    /\ cmd = "breaking" /\ pc = "idle"
    /\ t >= clock
    /\ Len(log) < MaxSections
    /\ published + fresh <= MaxArticles
    /\ clock' = t
    /\ dryRun' = dry
    /\ published' = published + fresh
    /\ mem' = reset_daily_counter(load_breaking_state(disk, t), t)
    /\ atStart' = disk
    /\ writes' = 0
    /\ found' = <<>>
    /\ handled' = <<>>
    /\ lastExit' = "none"
    /\ pc' = "scan"
    /\ offered' = <<>>
    /\ UNCHANGED <<cmd, fetchFile, newsLog, nextSrc, results, polled, cadenceOf, prefixes, accepted,
                   before, zeroVars>>
    /\ UNCHANGED <<disk, log, runHistory>>
    /\ UNCHANGED <<lockVars, saveVars, fnVars, appendVars>>

\* lines 212-246: the scan of the sources one after the other, the trim of the
\* seen list, last_check; without a match the run goes on to save (lines
\* 248-251).  The fetches of the sources in down fail; the second source lists
\* its first article.
BreakScan(down) ==
    /\ pc = "scan"
    /\ \E r1 \in {Reply(SourceName \in down, FeedOf(published, Min(MaxItems, published), FALSE))} :
       \E r2 \in {Reply(OtherSource \in down, BurstOf(0, 1))} :
       \E sc1 \in {ScanArticles(fetch(r1), SourceName, 1, Len(fetch(r1)),
                                [seen |-> Get(mem, "seen_ids", <<>>),
                                 matches |-> <<>>, skips |-> 0])} :
       \E sc \in {ScanArticles(fetch(r2), OtherSource, 1, Len(fetch(r2)), sc1)} :
          /\ mem' = Put(Put(mem, "seen_ids", TrimSeen(sc.seen)), "last_check", IsoFormat(clock))
          /\ found' = sc.matches
          /\ offered' = <<<<SourceName, r1>>, <<OtherSource, r2>>>>
          /\ pc' = IF sc.matches = <<>> THEN "save" ELSE "alerts"
    /\ UNCHANGED <<cmd, fetchFile, newsLog, writes, atStart, nextSrc, results, polled,
                   cadenceOf, lastExit, handled, prefixes, accepted, before, zeroVars>>
    /\ UNCHANGED runVars
    /\ UNCHANGED <<lockVars, saveVars, fnVars, appendVars>>

\* lines 253-270: for match in matches
BreakAlerts ==
    /\ pc = "alerts"
    /\ \E al \in {AlertLoop(found, 1, mem, <<>>, [now |-> clock, dry |-> dryRun])} :
          /\ mem' = al.state
          /\ handled' = al.sent
    /\ pc' = IF dryRun THEN "save" ELSE "section"
    /\ UNCHANGED <<cmd, fetchFile, newsLog, writes, atStart, nextSrc, results, polled,
                   cadenceOf, lastExit, found, dedupVars, zeroVars>>
    /\ UNCHANGED runVars
    /\ UNCHANGED <<lockVars, saveVars, fnVars, appendVars>>

\* lines 272-273: _append_breaking_log(cfg, sent_matches, now)
BreakLog ==
    /\ pc = "section"
    /\ log' = IF handled # <<>>
              THEN Append(log, [date |-> DateIso(clock), items |-> handled])
              ELSE log
    /\ pc' = "save"
    /\ UNCHANGED <<cmd, mem, fetchFile, newsLog, writes, atStart, nextSrc, results, polled,
                   cadenceOf, lastExit, found, handled, dedupVars, zeroVars>>
    /\ UNCHANGED <<clock, published, disk, dryRun, runHistory>>
    /\ UNCHANGED <<lockVars, saveVars, fnVars, appendVars>>

\* line 250 or line 275: save_breaking_state(state_path, state); return 0
BreakSave ==
    /\ pc = "save"
    /\ disk' = {mem}
    /\ writes' = writes + 1
    /\ pc' = "idle"
    /\ lastExit' = "ok"
    /\ UNCHANGED <<cmd, mem, fetchFile, newsLog, atStart, nextSrc, results, polled, cadenceOf,
                   found, handled, dedupVars, zeroVars>>
    /\ UNCHANGED <<clock, published, log, dryRun, runHistory>>
    /\ UNCHANGED <<lockVars, saveVars, fnVars, appendVars>>

BreakNext ==
    \/ \E t \in WindowClock, dry \in BOOLEAN, fresh \in {0, 1} : BreakBegin(t, dry, fresh)
    \/ BreakScan({})
    \/ BreakAlerts
    \/ BreakLog
    \/ BreakSave

StepNext == FetchNext \/ BreakNext

\* the runs of one day and the next
RepeatClock == {TimedeltaDays(d) : d \in 0..1}

\* the two commands step by step, with sources that list the same story and
\* with fetches that fail; the breaking runs are not dry
PollNext ==
    \/ \E t \in RepeatClock : FetchBegin(t)
    \/ \E reply \in PollReplies : FetchSource(reply)
    \/ FetchSave
    \/ FetchLog
    \/ Abort
    \/ \E t \in WindowClock, fresh \in {0, 1} : BreakBegin(t, FALSE, fresh)
    \/ \E down \in SUBSET {SourceName, OtherSource} : BreakScan(down)
    \/ BreakAlerts
    \/ BreakLog
    \/ BreakSave

\* fetch runs from their first line to their last; no fetch fails
RepeatNext ==
    \E t \in RepeatClock, replies \in [SourceNames -> {r \in PollReplies : ~r.failed}] :
       FetchRun(t, replies, MaxZeros)

\* how many fetches without a new article in a row the whole runs go through
MaxStreak == 6

\* the instants of the whole runs that count empty fetches
StreakClock == {TimedeltaDays(d) : d \in {0, 5}}

\* whole fetch runs in which each source has one new article or none
StreakNext ==
    \E t \in StreakClock, lucky \in SUBSET SourceNames :
       FetchRun(t,
                [n \in SourceNames |->
                    IF n \in lucky THEN Reply(FALSE, <<FreshArticle(n, Len(newsLog))>>)
                    ELSE NoArticles],
                MaxStreak)

-----------------------------------------------------------------------------
(* The log file under concurrent writers: log.py lines 63-75 and 103-114,    *)
(* called by cli.py line 140, breaking.py line 185 and discover.py line 71.  *)

\* the calls of append_to_log each command makes
MaxAppends == 2

\* the commands that write the log
Writers == {"fetch", "breaking", "discover"}

\* every command behind one lock
LockPathShared(w) == "news.lock"

\* the lock each command holds while it calls append_to_log: cli.py line 57
\* (cfg.state_path), breaking.py lines 196-199 (breaking-state.json);
\* run_discover takes no lock
LockPathOf(w) ==
    CASE w = "fetch" -> "state.json.lock"
      [] w = "breaking" -> "breaking-state.json.lock"
      [] w = "discover" -> "none"

\* the log file as its parts in order: a heading, the marker "<!-- News
\* entries below -->", and the batches; NoLog when the file does not exist
LogPart(by, no) == [by |-> by, no |-> no]
Heading == LogPart("heading", 0)
Marker == LogPart("marker", 0)
NoLog == <<LogPart("missing", 0)>>

\* the batches of w whose append_to_log has returned
ReturnedOf(w) == {b \in appended : b.by = w}

\* log.py lines 110-113: the content with the markdown put after the first
\* marker, or at the end of a content without marker
RECURSIVE AfterMarker(_, _, _)
AfterMarker(content, i, markdown) ==
    IF i > Len(content) THEN Append(content, markdown)
    ELSE IF content[i] = Marker
    THEN SubSeq(content, 1, i) \o <<markdown>> \o SubSeq(content, i + 1, Len(content))
    ELSE AfterMarker(content, i + 1, markdown)

AppendIdle ==
    /\ logFile = NoLog
    /\ apc = [w \in Writers |-> "idle"]
    /\ abuf = [w \in Writers |-> <<>>]
    /\ appended = {}

\* the log does not exist yet, or holds a heading with or without the marker
AppendInit ==
    /\ logFile \in {NoLog, <<Heading, Marker>>, <<Heading>>}
    /\ apc = [w \in Writers |-> "idle"]
    /\ abuf = [w \in Writers |-> <<>>]
    /\ appended = {}

\* log.py line 105: `if not log_path.exists()`, in a command that holds its
\* lock; two commands exclude each other only when they lock the same path
AppendExists(w) ==
    /\ apc[w] = "idle"
    /\ Cardinality(ReturnedOf(w)) < MaxAppends
    /\ \A v \in Writers \ {w} :
          LockPathOf(v) = LockPathOf(w) /\ LockPathOf(w) # "none" => apc[v] = "idle"
    /\ apc' = [apc EXCEPT ![w] = IF logFile = NoLog THEN "creating" ELSE "reading"]
    /\ UNCHANGED <<logFile, abuf, appended>>
    /\ UNCHANGED <<lockVars, saveVars, fnVars, runVars, stepVars>>

\* line 109: content = log_path.read_text(encoding="utf-8")
AppendRead(w) ==
    /\ apc[w] = "reading"
    /\ abuf' = [abuf EXCEPT ![w] = logFile]
    /\ apc' = [apc EXCEPT ![w] = "writing"]
    /\ UNCHANGED <<logFile, appended>>
    /\ UNCHANGED <<lockVars, saveVars, fnVars, runVars, stepVars>>

\* lines 106 and 110-114: _atomic_write replaces the file by the markdown
\* alone, or by the content read with the markdown added; the call returns
AppendWrite(w) ==
    /\ apc[w] \in {"creating", "writing"}
    /\ \E markdown \in {LogPart(w, Cardinality(ReturnedOf(w)) + 1)} :
          /\ logFile' = IF apc[w] = "creating" THEN <<markdown>>
                        ELSE AfterMarker(abuf[w], 1, markdown)
          /\ appended' = appended \cup {markdown}
    /\ apc' = [apc EXCEPT ![w] = "idle"]
    /\ abuf' = [abuf EXCEPT ![w] = <<>>]
    /\ UNCHANGED <<lockVars, saveVars, fnVars, runVars, stepVars>>

AppendNext == \E w \in Writers : AppendExists(w) \/ AppendRead(w) \/ AppendWrite(w)

-----------------------------------------------------------------------------
(* Specifications *)

FnIdle ==
    /\ tInput = NoState
    /\ tState = NoState
    /\ tNow = 0
    /\ tPrev = NoState
    /\ tOp = "none"
    /\ tResult = FALSE
    /\ tCount = 0
    /\ tCadence = "daily"

Init == LockInit /\ SaveInit /\ AppendIdle /\ FnIdle /\ RunInit /\ StepIdle

\* no breaking run has happened and there is no breaking-state.json
RunIdle == RunInit /\ disk = {}

\* the start of the lock and of the save: nothing else is going on
AtRest == LockInit /\ SaveInit /\ AppendIdle /\ FnIdle /\ RunIdle /\ StepIdle

Spec == Init /\ [][Next]_vars

WindowSpec == Init /\ [][WindowNext]_vars

LockSpec == AtRest /\ [][LockNext]_vars

\* the steps of lockfile() that follow the open, the run body apart
LockAdvance(p) == LockFlock(p) \/ LockUnlock(p) \/ LockClose(p) \/ LockUnlink(p)

\* the lock with scheduling: invocations keep being started, an invocation that
\* is not killed takes the next step of lockfile(), and a run body comes to its
\* end; kills may happen, but not to every invocation before its next step
LockLive ==
    /\ AtRest
    /\ [][LockNext]_vars
    /\ WF_vars(\E p \in Procs : LockOpen(p) /\ lpc[p] = Out)
    /\ \A p \in Procs : SF_vars(LockAdvance(p))
    /\ \A p \in Procs : SF_vars(LockBodyEnd(p) /\ lpc[p].lvl = 1)
    /\ \A p \in Nesters : SF_vars(LockBodyEnd(p) /\ lpc[p].lvl = 2)

GuardedSpec == AtRest /\ [][GuardedNext]_vars

SaveSpec == AtRest /\ [][SaveNext]_vars

\* the functions start from drawn arguments, the rest of the system at rest
ThrottleStart == LockInit /\ SaveInit /\ AppendIdle /\ ThrottleInit /\ RunIdle /\ StepIdle

ThrottleSpec == ThrottleStart /\ [][ThrottleNext]_vars

LoadStart == LockInit /\ SaveInit /\ AppendIdle /\ LoadInit /\ RunIdle /\ StepIdle
LoadSpec == LoadStart /\ [][LoadNext]_vars

ClassifyStart == LockInit /\ SaveInit /\ AppendIdle /\ ClassifyInit /\ RunIdle /\ StepIdle
ClassifySpec == ClassifyStart /\ [][ClassifyNext]_vars

CadenceStart == LockInit /\ SaveInit /\ AppendIdle /\ CadenceInit /\ RunIdle /\ StepIdle
CadenceSpec == CadenceStart /\ [][CadenceNext]_vars

FetchStart == LockInit /\ SaveInit /\ AppendIdle /\ FnIdle /\ RunIdle /\ FetchInit
FetchSpec == FetchStart /\ [][FetchNext]_vars

StepStart == LockInit /\ SaveInit /\ AppendIdle /\ FnIdle /\ RunIdle /\ (FetchInit \/ BreakInit)
StepSpec == StepStart /\ [][StepNext]_vars

\* the fetch command with daily sources and no state file yet
DailyInit == FetchInit /\ fetchFile = {} /\ cadenceOf = [n \in SourceNames |-> "daily"]

PollStart == LockInit /\ SaveInit /\ AppendIdle /\ FnIdle /\ RunIdle /\ (DailyInit \/ BreakInit)
PollSpec == PollStart /\ [][PollNext]_vars

\* the fetch command with no state file yet, the first source daily or weekly
StreakInit == FetchInit /\ fetchFile = {} /\ cadenceOf[Sources[1]] \in {"daily", "weekly"}

StreakStart == LockInit /\ SaveInit /\ AppendIdle /\ FnIdle /\ RunIdle /\ StreakInit
StreakSpec == StreakStart /\ [][StreakNext]_vars

RepeatStart == LockInit /\ SaveInit /\ AppendIdle /\ FnIdle /\ RunIdle /\ DailyInit
RepeatSpec == RepeatStart /\ [][RepeatNext]_vars

-----------------------------------------------------------------------------
(* ProcessLock: properties *)

\* C1: for any number of invocations racing on the same state file, failing and
\* exiting ones included, at most one process is inside the locked run body at
\* any time.
MutualExclusion == Cardinality({p \in Procs : InBody(p)}) <= 1

\* the lock for the state file is held: some invocation is inside the run body
LockIsHeld == \E q \in Procs : InBody(q)

\* C3: an acquisition attempt made while the lock for the same state file is
\* held, by another process or by the same process, does not block or retry: its
\* flock step raises SystemExit(1) at once and the run body is not entered.
FailFast ==
    [][\A p \in Procs :
          (LockFlock(p) /\ LockIsHeld) =>
              (raising'[p] = "SystemExit1" /\ lpc'[p].ph = "unlock")]_vars

\* a descriptor that went through LOCK_UN holds nothing, and neither does a
\* process that left lockfile() or died
ReleasedAtEnd ==
    \A p \in Procs :
       /\ lpc[p] = Out => ~Holds(p)
       /\ lpc[p].ph \in {"close", "unlink"} =>
              \A i \in LockInodes : flockOf[i] # <<p, lpc[p].lvl>>

\* C4: whenever a run that holds the lock ends, by normal return, by an
\* exception in the run body or by process death, the lock is released: a
\* process outside lockfile() holds no lock, every holder's lock is eventually
\* released, and when nobody holds the lock an invocation eventually acquires it.
ReleaseThenAcquire ==
    /\ []ReleasedAtEnd
    /\ \A p \in Procs : Holds(p) ~> ~Holds(p)
    /\ (~SomeLockHeld) ~> SomeLockHeld

\* a holder was killed inside lockfile(), its lock is gone, and another process
\* acquired the lock and is in the run body
AcquiredAfterDeath ==
    \E p, q \in Procs :
       /\ p # q
       /\ exit[q] = "killed" /\ wasHolder[q] /\ lpc[q] = Out /\ ~Holds(q)
       /\ lpc[p] = [ph |-> "body", lvl |-> 1] /\ Holds(p)

-----------------------------------------------------------------------------
(* StateStore: properties *)

\* C2: at every point of a save, a kill at any step and a concurrent reader
\* included, the target path holds either the previously committed content in
\* full or the new content in full, and a reader never gets a partial file:
\* the target is a complete text (or does not exist yet), it is the committed
\* text until the rename and the committed or the new text afterwards, and what
\* a reader has open or has read is a complete text.
AtomicSave ==
    /\ TargetText \in FullTexts \cup {Missing}
    /\ spc \in {"write", "replace"} => TargetText = committed
    /\ spc = "finally" => TargetText \in {committed, payload}
    /\ rfd # NoIno => files[rfd] \in FullTexts
    /\ lastRead \in FullTexts \cup {Nothing}

\* a save of new content is half written while the target exists and a reader
\* has it open, and an earlier save, killed in mid-write, left a partial
\* temporary file behind
HalfWrittenSave ==
    /\ spc = "write" /\ written > 0 /\ written < Len(payload)
    /\ payload # committed
    /\ target # NoIno /\ rfd = target
    /\ \E i \in temps : i # tmpIno /\ files[i] # <<>> /\ files[i] \notin FullTexts

-----------------------------------------------------------------------------
(* AlertThrottle: properties of the two functions *)

\* C7: can_alert(state, now) is false whenever alerts_today >= 3 whatever the
\* time since the last alert, false whenever last_alert_time parses and
\* now - last_alert_time is strictly less than 60 minutes whatever the quota
\* left, true in every other case (an absent or unparseable last_alert_time
\* included), and it leaves the state as it was.
CanAlertTable ==
    tOp = "can_alert" =>
        /\ tResult =
              ~ \/ Get(tState, "alerts_today", 0) >= MAX_ALERTS_PER_DAY
                \/ \E last \in Clock :
                      /\ Get(tState, "last_alert_time", None) \in {IsoFormat(last), IsoNaive(last)}
                      /\ tNow - last < COOLDOWN_MINUTES
        /\ tState = tPrev

\* can_alert refused with quota left, one minute before the cooldown was over
RefusedInCooldown ==
    /\ tOp = "can_alert" /\ tResult = FALSE
    /\ Get(tState, "alerts_today", 0) < MAX_ALERTS_PER_DAY
    /\ \E last \in Clock :
          /\ Get(tState, "last_alert_time", None) = IsoFormat(last)
          /\ tNow - last = COOLDOWN_MINUTES - 1

\* C8: reset_daily_counter(state, now) sets alerts_today to 0 and today_date to
\* the date of now when the stored today_date differs from the date of now,
\* changes nothing when they are equal, and applied a second time with the same
\* now it gives the state the first application gave.
ResetTable ==
    tOp = "reset" =>
        /\ Get(tPrev, "today_date", None) # DateIso(tNow) =>
              /\ DOMAIN tState = DOMAIN tPrev \cup {"alerts_today", "today_date"}
              /\ tState["alerts_today"] = 0
              /\ tState["today_date"] = DateIso(tNow)
        /\ Get(tPrev, "today_date", None) = DateIso(tNow) => tState = tPrev
        /\ tCount >= 2 => tState = tPrev

\* a state of another day with alerts counted went through the reset twice:
\* the counter is 0, the date is today's, the second application changed nothing
ResetTwice ==
    /\ tOp = "reset" /\ tCount = 2
    /\ Get(tInput, "today_date", None) # DateIso(tNow)
    /\ Get(tInput, "alerts_today", 0) > 0
    /\ tState = tPrev
    /\ Get(tState, "alerts_today", 1) = 0

-----------------------------------------------------------------------------
(* Breaking runs: properties *)

\* alerts_today as persisted in breaking-state.json (0 while there is no file)
PersistedAlertsToday == IF disk = {} THEN 0 ELSE Get(CHOOSE st \in disk : TRUE, "alerts_today", 0)

\* C5: over any sequence of completed breaking runs with a non-decreasing
\* clock, starting without a state file or from one with alerts_today <= 3, at most MAX_ALERTS_PER_DAY (3) alerts
\* are dispatched on the same UTC date and the persisted alerts_today never
\* exceeds 3.
DailyQuota ==
    /\ \A d \in Days : alertCount[d] <= MAX_ALERTS_PER_DAY
    /\ PersistedAlertsToday <= MAX_ALERTS_PER_DAY

\* three alerts went out on the first day and a later non-dry run of that day,
\* past the cooldown, found a match and sent nothing
QuotaUsedUp ==
    /\ alertCount[0] = MAX_ALERTS_PER_DAY
    /\ ~dryRun /\ matches # <<>> /\ sentMatches = <<>>
    /\ clock \div MinutesPerDay = 0
    /\ clock - lastAlertAt >= COOLDOWN_MINUTES

\* C6: any two alert dispatches of non-dry breaking runs, in the same run or in
\* different runs, also across a UTC day rollover, are at least
\* COOLDOWN_MINUTES (60 minutes) apart; a single run dispatches at most one.
CooldownKept ==
    /\ ~tooClose
    /\ Len(sentMatches) <= 1

\* on the day after an alert, a non-dry run found two matches, dispatched the
\* first and, with quota left, held the second back
SecondMatchHeldBack ==
    /\ ~dryRun /\ Len(matches) = 2 /\ Len(sentMatches) = 1
    /\ lastAlertAt = clock
    /\ clock \div MinutesPerDay = 1 /\ alertCount[0] >= 1
    /\ PersistedAlertsToday < MAX_ALERTS_PER_DAY

\* C9: alerts_today is reset to 0 exactly in the runs that start on a UTC date
\* different from the stored today_date, before any quota or cooldown check of
\* that run; runs on the stored date never reset or decrease it. After a run
\* on another date the persisted counter is the number of alerts of that run
\* and only the cooldown can have held a match back; after a run on the stored
\* date it is the loaded counter plus the alerts of that run.
RolloverReset ==
    [][\A st \in disk' :
          IF atLoad'.today_date # DateIso(clock')
          THEN /\ Get(st, "alerts_today", 0) = Len(sentMatches')
               /\ Get(st, "today_date", None) = DateIso(clock')
               /\ (~dryRun' /\ matches' # <<>> /\ sentMatches' = <<>>) =>
                      \E last \in Clock :
                         /\ Get(st, "last_alert_time", None) = IsoFormat(last)
                         /\ clock' - last < COOLDOWN_MINUTES
          ELSE /\ Get(st, "alerts_today", 0) = atLoad'.alerts_today + Len(sentMatches')
               /\ Get(st, "today_date", None) = atLoad'.today_date]_vars

\* a run that loaded a used-up quota of another day dispatched an alert
AlertAfterRollover ==
    /\ atLoad.alerts_today = MAX_ALERTS_PER_DAY
    /\ atLoad.today_date # DateIso(clock)
    /\ Len(sentMatches) = 1
    /\ PersistedAlertsToday = 1

\* the digest of a match
DigestOf(m) == article_hash(m.title, m.link, m.source)

NoDuplicates(seq) == \A i, j \in 1..Len(seq) : i # j => seq[i] # seq[j]

\* C10: in a breaking run an article whose digest is already in the seen set,
\* loaded from the state or added earlier in the same run, is skipped entirely:
\* no match of the run has a digest that was in the loaded seen list, no digest
\* is matched twice in a run, no article is alerted twice, and the persisted
\* seen list has no second entry for any digest.
SeenSkipped ==
    [][/\ \A st \in disk : \A i \in 1..Len(matches') :
              ~InSeq(DigestOf(matches'[i]), Get(st, "seen_ids", <<>>))
       /\ NoDuplicates(matches')
       /\ \A i \in 1..MaxArticles : alertsOf'[i] <= 1
       /\ \A st \in disk' : NoDuplicates(Get(st, "seen_ids", <<>>))]_vars

\* the feed of a run listed the new article 2, the breaking article 1 seen in
\* an earlier run, and article 2 once more: one match, two entries skipped
SkippedBothWays ==
    /\ published = 2
    /\ Len(matches) = 1 /\ matches[1].title.no = 2
    /\ is_breaking(Article(1, "2026-02-24").title)
    /\ skips = 2

\* the seen list of the state file, empty when there is none
SeenOn(file) == IF file = {} THEN <<>> ELSE Get(CHOOSE st \in file : TRUE, "seen_ids", <<>>)

\* the digest of article number i of the first source
DigestOfArticle(i) ==
    article_hash(Article(i, "2026-02-24").title, Article(i, "2026-02-24").link, SourceName)

\* C11 as stated: no article is ever alerted more than once, whatever else the
\* runs record in between.
AlertedOnce == \A i \in 1..MaxArticles : alertsOf[i] <= 1

\* C11, amended: a run alerts no article whose digest is in the seen list it
\* loads, and no article is alerted twice as long as all the digests recorded
\* so far fit in the seen window together.
AlertedOnceInWindow ==
    [][/\ \A i \in 1..MaxArticles :
             InSeq(DigestOfArticle(i), SeenOn(disk)) => alertsOf'[i] = alertsOf[i]
       /\ published' + flood' <= MAX_SEEN_IDS =>
             \A i \in 1..MaxArticles : alertsOf'[i] <= 1]_vars

\* article 1 was alerted, one digest less than a whole window was recorded
\* after it, and the last run was returned the article again and skipped it
StillInWindow ==
    /\ alertsOf[1] = 1
    /\ flood = MAX_SEEN_IDS - 1
    /\ Len(SeenOn(disk)) = MAX_SEEN_IDS
    /\ SeenOn(disk)[1] = DigestOfArticle(1)
    /\ \E j \in 1..Len(returned) : returned[j].source = SourceName /\ returned[j].title.no = 1
    /\ skips >= 1
    /\ sentMatches = <<>>

\* the digests a run inserts, in order: those of the returned articles that are
\* neither in the loaded list nor the digest of an article returned before them
Inserted(old, arts) ==
    LET New(j) == /\ ~InSeq(DigestOf(arts[j]), old)
                  /\ \A h \in 1..(j - 1) : DigestOf(arts[h]) # DigestOf(arts[j])
        picked == SelectSeq([j \in 1..Len(arts) |-> j], New)
    IN  [h \in 1..Len(picked) |-> DigestOf(arts[picked[h]])]

\* C12: after a breaking run the persisted seen list has at most MAX_SEEN_IDS
\* entries, and it is the loaded list followed by the digests the run inserted,
\* in insertion order, without its earliest entries: as many of them as exceed
\* the capacity, and no others.
SeenWindow ==
    [][\E all \in {SeenOn(disk) \o Inserted(SeenOn(disk), returned')} :
          /\ Len(SeenOn(disk')) <= MAX_SEEN_IDS
          /\ Len(SeenOn(disk')) = Min(Len(all), MAX_SEEN_IDS)
          /\ SeenOn(disk') = SubSeq(all, Len(all) - Len(SeenOn(disk')) + 1, Len(all))]_vars

\* the window is full, and the last run dropped the digest of article 1, the
\* earliest inserted, and kept that of article 2 at the head of the list
EarliestDropped ==
    /\ Len(SeenOn(disk)) = MAX_SEEN_IDS
    /\ published >= 2
    /\ alertsOf[1] = 1
    /\ ~InSeq(DigestOfArticle(1), SeenOn(disk))
    /\ SeenOn(disk)[1] = DigestOfArticle(2)
    /\ Len(returned) >= MAX_SEEN_IDS - 1

\* the state a run at time t works on after load_breaking_state and
\* reset_daily_counter
AfterReset(file, t) == reset_daily_counter(load_breaking_state(file, t), t)

\* the field of the state file, default when there is no file or no such field
FieldOn(file, key, default) ==
    IF file = {} THEN default ELSE Get(CHOOSE st \in file : TRUE, key, default)

\* C13: a non-dry run that starts with alerts_today = 0 after the rollover
\* check and no cooldown in effect, and is returned only articles whose digests
\* it has not seen (no more of them than the seen window holds; one source
\* returns at most 10), exactly one of them breaking, dispatches exactly one
\* alert, for the breaking article, persists alerts_today = 1, and persists the
\* digest of every returned article; no alert is counted for any other article.
OneAlertEndToEnd ==
    [][(/\ ~dryRun'
        /\ Get(AfterReset(disk, clock'), "alerts_today", 0) = 0
        /\ can_alert(AfterReset(disk, clock'), clock')
        /\ returned' # <<>> /\ Len(returned') <= MAX_SEEN_IDS
        /\ \A j \in 1..Len(returned') :
              /\ returned'[j].title.words # <<>>
              /\ ~InSeq(DigestOf(returned'[j]), SeenOn(disk))
        /\ Cardinality({DigestOf(returned'[j]) :
                          j \in {h \in 1..Len(returned') : is_breaking(returned'[h].title)}}) = 1)
       => /\ Len(sentMatches') = 1
          /\ is_breaking(sentMatches'[1].title)
          /\ FieldOn(disk', "alerts_today", 0) = 1
          /\ \A j \in 1..Len(returned') : InSeq(DigestOf(returned'[j]), SeenOn(disk'))
          /\ \A i \in 1..MaxArticles :
                alertsOf'[i] > alertsOf[i] =>
                   /\ sentMatches'[1].title.no = i
                   /\ sentMatches'[1].source = SourceName]_vars

\* the first run, not dry: the sources returned the breaking article 1 and
\* unseen articles that are not breaking; one alert went out, alerts_today is 1
\* and every returned digest is in the persisted seen list
OneOfManyAlerted ==
    /\ ~dryRun /\ atLoad.alerts_today = 0 /\ lastAlertAt = clock
    /\ Len(returned) >= 2 /\ skips = 0
    /\ Len(matches) = 1 /\ sentMatches = matches /\ matches[1].title.no = 1
    /\ \E j \in 1..Len(returned) : ~is_breaking(returned[j].title)
    /\ alertsOf[1] = 1
    /\ FieldOn(disk, "alerts_today", 0) = 1
    /\ \A j \in 1..Len(returned) : InSeq(DigestOf(returned[j]), SeenOn(disk))

\* C14: a dry run handles no match as sent, appends nothing to the log, counts
\* no alert, and persists alerts_today, today_date and last_alert_time as they
\* are after the rollover reset of the state it loaded; it persists the digest
\* of every article returned to it and last_check = now.
DryRunFrame ==
    [][dryRun' =>
          /\ sentMatches' = <<>>
          /\ log' = log
          /\ alertCount' = alertCount /\ alertsOf' = alertsOf /\ lastAlertAt' = lastAlertAt
          /\ \A key \in {"alerts_today", "today_date", "last_alert_time"} :
                FieldOn(disk', key, None) = Get(AfterReset(disk, clock'), key, None)
          /\ \A j \in 1..Len(returned') : InSeq(DigestOf(returned'[j]), SeenOn(disk'))
          /\ FieldOn(disk', "last_check", None) = IsoFormat(clock')]_vars

\* a dry run on the day after an alert found a new match with nothing to
\* throttle it: nothing sent or counted, the counter persisted as reset, the
\* digest of the match recorded
DryRunOnlyRecords ==
    /\ dryRun /\ matches # <<>> /\ sentMatches = <<>>
    /\ clock \div MinutesPerDay = 1 /\ alertCount[0] = 1 /\ alertCount[1] = 0
    /\ Len(log) = 1
    /\ atLoad.alerts_today = 1
    /\ FieldOn(disk, "alerts_today", None) = 0
    /\ FieldOn(disk, "today_date", None) = DateIso(clock)
    /\ FieldOn(disk, "last_check", None) = IsoFormat(clock)
    /\ InSeq(DigestOf(matches[1]), SeenOn(disk))

-----------------------------------------------------------------------------
(* CadenceScheduler: properties *)

\* the recorded timestamp should_fetch was asked about
AskedStamp == Get(tState, Asked, None)

\* C16: should_fetch is true when the source has no recorded timestamp or an
\* empty one; for a timestamp that parses, with or without timezone (then taken
\* as UTC), it is true exactly when now - lastFetch is at least the interval of
\* the cadence class: daily 0, twice_weekly 2, weekly 5, biweekly 10, monthly
\* 25 days, any other class 1 day.
ShouldFetchTable ==
    tOp = "should_fetch" =>
       /\ AskedStamp \in {None, EmptyStr} => tResult
       /\ \A s \in StampTimes :
             AskedStamp \in {IsoFormat(s), IsoNaive(s)} =>
                (tResult <=>
                    tNow - s >= MinutesPerDay *
                       (CASE tCadence = "daily" -> 0
                          [] tCadence = "twice_weekly" -> 2
                          [] tCadence = "weekly" -> 5
                          [] tCadence = "biweekly" -> 10
                          [] tCadence = "monthly" -> 25
                          [] tCadence \notin Cadences -> 1))

\* a monthly source with a timestamp without timezone, asked exactly 25 days
\* later: due
DueAtTheInterval ==
    /\ tOp = "should_fetch" /\ tResult
    /\ tCadence = "monthly"
    /\ \E s \in StampTimes : AskedStamp = IsoNaive(s) /\ tNow - s = 25 * MinutesPerDay

-----------------------------------------------------------------------------
(* Runs step by step: properties *)

\* the state file of the command invoked
StateFile == IF cmd = "fetch" THEN fetchFile ELSE disk

\* C15: a fetch or breaking run that ends successfully has written its state
\* file exactly once, and the file then holds the state as the run last had it
\* in memory, also when the run found nothing new; up to that write the file
\* is as the run found it, so a run that ends before it leaves the file so.
WrittenOnceAtEnd ==
    /\ writes <= 1
    /\ pc \notin {"idle", "logging"} => writes = 0 /\ StateFile = atStart
    /\ pc = "idle" /\ lastExit = "ok" => writes = 1 /\ StateFile = {mem}
    /\ pc = "idle" /\ lastExit = "aborted" /\ writes = 0 => StateFile = atStart

\* a fetch run polled a source, found nothing new, and ended successfully: the
\* state file was written once and differs from what the run found
SavedWithNothingNew ==
    /\ cmd = "fetch" /\ pc = "idle" /\ lastExit = "ok"
    /\ polled # {} /\ results = {}
    /\ writes = 1
    /\ fetchFile = {mem} /\ fetchFile # atStart

\* the minimum intervals in days as the cadence table states them
StatedDays(cadence) ==
    CASE cadence = "daily" -> 0
      [] cadence = "twice_weekly" -> 2
      [] cadence = "weekly" -> 5
      [] cadence = "biweekly" -> 10
      [] cadence = "monthly" -> 25
      [] cadence \notin Cadences -> 1

\* the sources whose timestamp, as the run holds it, is the run's now
JustFetched == {n \in SourceNames : n \in DOMAIN mem /\ mem[n] = IsoFormat(clock)}

\* C17 as stated: for a source of any cadence class whose recorded timestamp
\* is now, should_fetch is false at that same now, and true once the elapsed
\* time has reached the minimum number of days of the class.
NotDueRightAfter ==
    \A n \in JustFetched :
       /\ ~should_fetch(mem, n, cadenceOf[n], clock)
       /\ should_fetch(mem, n, cadenceOf[n], clock + TimedeltaDays(StatedDays(cadenceOf[n])))

\* C17, amended: for a source whose recorded timestamp is now, should_fetch at
\* a time e later is true exactly when e has reached the minimum number of
\* days of the class; so at that same now it is false for every class with a
\* positive minimum and true for daily, whose minimum is 0 days.
DueFromTheInterval ==
    \A n \in JustFetched :
       /\ \A d \in IntervalDays, m \in {-1, 0, 1} :
             TimedeltaDays(d) + m >= 0 =>
                (should_fetch(mem, n, cadenceOf[n], clock + TimedeltaDays(d) + m)
                   <=> TimedeltaDays(d) + m >= TimedeltaDays(StatedDays(cadenceOf[n])))
       /\ should_fetch(mem, n, cadenceOf[n], clock) <=> cadenceOf[n] = "daily"

\* a second run at the same now as the first passed over the weekly source
\* the first had fetched and fetched the daily one again
DailyFetchedAgain ==
    /\ pc = "idle" /\ lastExit = "ok"
    /\ cadenceOf[Sources[1]] = "weekly" /\ cadenceOf[Sources[2]] = "daily"
    /\ JustFetched = SourceNames
    /\ atStart # {} /\ \A st \in atStart : SourceNames \subseteq DOMAIN st
                                            /\ \A n \in SourceNames : st[n] = IsoFormat(clock)
    /\ polled = {Sources[2]}

\* the sources whose recorded timestamp, as the run holds it, does not parse
Malformed == {n \in SourceNames : n \in DOMAIN mem /\ Truthy(mem[n]) /\ ~Parses(mem[n])}

\* C18: for a source whose recorded timestamp does not parse, should_fetch is
\* true for every cadence class and every now, and every fetch run that comes
\* to such a source in its loop fetches it.
MalformedAlwaysDue ==
    /\ [](\A n \in Malformed : \A c \in Cadences \cup {UnknownCadence} :
             \A t \in FetchClock \cup CadenceNows : should_fetch(mem, n, c, t))
    /\ [][\A n \in Malformed :
             pc = "sources" /\ nextSrc <= Len(Sources) /\ Sources[nextSrc] = n
                /\ nextSrc' = nextSrc + 1
             => n \in polled']_vars

\* a monthly source with an unparseable timestamp was fetched by two runs on
\* the same day, found nothing new, and still has that timestamp
MalformedFetchedTwice ==
    /\ pc = "idle" /\ lastExit = "ok"
    /\ cadenceOf[Sources[1]] = "monthly"
    /\ Sources[1] \in Malformed /\ Sources[1] \in polled
    /\ ZKey(Sources[1]) \in DOMAIN mem /\ IntOf(mem[ZKey(Sources[1])]) = 2
    /\ clock < MinutesPerDay

\* C19: over the fetch runs, whose clock never steps back, the timestamp
\* state.json records for a source never decreases: once it holds a timestamp
\* that parses, every later content of the file holds one that is not earlier.
TimestampsNeverDecrease ==
    [][\A n \in SourceNames :
          n \in DOMAIN load_state(fetchFile) /\ Parses(load_state(fetchFile)[n])
          => /\ n \in DOMAIN load_state(fetchFile')
             /\ Parses(load_state(fetchFile')[n])
             /\ FromIso(load_state(fetchFile')[n]) >= FromIso(load_state(fetchFile)[n])]_vars

\* a run two days after the timestamp it found for the twice-weekly source
\* fetched the source and recorded its own now for it
TimestampAdvanced ==
    /\ pc = "idle" /\ lastExit = "ok"
    /\ cadenceOf[Sources[1]] = "twice_weekly"
    /\ atStart = {[k \in {Sources[1]} |-> IsoNaive(0)]}
    /\ clock = TimedeltaDays(2)
    /\ Sources[1] \in polled /\ Sources[1] \in results
    /\ load_state(fetchFile)[Sources[1]] = IsoFormat(clock)

-----------------------------------------------------------------------------
(* StateStore: round trip *)

\* C20: for every fetch state S, the empty map included, once save_state has
\* replaced the state file with the text of S, load_state of that file returns
\* a map equal to S.
SaveLoadRoundTrip ==
    \A S \in SaveStates :
       spc = "finally" /\ target = tmpIno /\ payload = Dumps(S)
       => LoadStateFrom(TargetText) = S

\* a save of a state with two sources has replaced the file, and a reader has
\* read the file since: what it read loads as a map with both sources
TwoSourcesRead ==
    /\ spc = "finally" /\ target = tmpIno
    /\ \E S \in SaveStates : DOMAIN S = {"a", "b"} /\ payload = Dumps(S)
    /\ lastRead = TargetText
    /\ DOMAIN LoadStateFrom(lastRead) = {"a", "b"}

\* C30: after a save has ended in any way (the rename done, an error raised
\* before the rename, the process killed at any step), no temporary file of
\* the save remains in the directory of the state file.
NoTempFileRemains == spc = "idle" => temps = {}

-----------------------------------------------------------------------------
(* BreakingClassifier: properties *)

\* the words of the title that the pattern matches
Hits(pattern, title) == {i \in DOMAIN title.words : title.words[i] \in pattern}

\* C26: is_breaking(title) is true exactly when the title matches an entity
\* pattern and an action pattern and no negative-signal pattern; a title with
\* an entity, an action and a negative-signal match is not breaking.
IsBreakingTable ==
    tOp = "is_breaking"
    => /\ tResult <=> /\ Hits(ENTITIES, tInput) # {}
                      /\ Hits(ACTIONS_PATTERN, tInput) # {}
                      /\ Hits(NEGATIVE, tInput) = {}
       /\ Hits(NEGATIVE, tInput) # {} => ~tResult

\* a title with an entity, an action and a negative signal was classified, and
\* is not breaking
VetoedTitle ==
    /\ tOp = "is_breaking"
    /\ tInput.words = <<"openai", "launches", "podcast">>
    /\ ~tResult

-----------------------------------------------------------------------------
(* Breaking runs: the sender and the throttle *)

\* C27: in a non-dry run alerts_today is incremented and last_alert_time is set
\* only when the alert was dispatched successfully: a run whose dispatch failed,
\* or was skipped because the notification sender was not found, persists both
\* as they are after the rollover reset of the state it loaded.
CountedOnlyWhenSent ==
    [][~dryRun' /\ sendResult' \in {"failed", "notfound"}
          => \A key \in {"alerts_today", "last_alert_time"} :
                FieldOn(disk', key, None) = Get(AfterReset(disk, clock'), key, None)]_vars

\* C28: a match that is throttled in a non-dry run is not dispatched and leaves
\* alerts_today and last_alert_time as they are: the run persists alerts_today
\* as loaded and reset plus one per match it handled as sent, no match is
\* handled twice, no alert is counted for a match that was not handled, and a
\* run all of whose matches were throttled calls no sender, logs nothing and
\* persists last_alert_time as it loaded it.
ThrottledLeavesNoTrace ==
    [][~dryRun' =>
          /\ FieldOn(disk', "alerts_today", 0)
                = Get(AfterReset(disk, clock'), "alerts_today", 0) + Len(sentMatches')
          /\ \A m \in {matches'[j] : j \in 1..Len(matches')} :
                /\ Cardinality({j \in 1..Len(sentMatches') : sentMatches'[j] = m}) <= 1
                /\ ~InSeq(m, sentMatches') => alertsOf'[m.title.no] = alertsOf[m.title.no]
          /\ sentMatches' = <<>> =>
                /\ sendResult' = "none" /\ alertCount' = alertCount /\ log' = log
                /\ FieldOn(disk', "last_alert_time", None)
                      = Get(AfterReset(disk, clock'), "last_alert_time", None)]_vars

\* a non-dry run within the cooldown of the last alert found a new match and
\* throttled it: nothing sent, the counter and the time of the last alert as
\* before, the digest of the match recorded
ThrottledAndKept ==
    /\ ~dryRun /\ matches # <<>> /\ sentMatches = <<>> /\ sendResult = "none"
    /\ lastAlertAt >= 0 /\ clock - lastAlertAt < COOLDOWN_MINUTES
    /\ FieldOn(disk, "alerts_today", None) = 1
    /\ FieldOn(disk, "last_alert_time", None) = IsoFormat(lastAlertAt)
    /\ InSeq(DigestOf(matches[1]), SeenOn(disk))

-----------------------------------------------------------------------------
(* ProcessLock around the run: properties *)

\* C22: an invocation that fails to acquire the lock exits with status 1
\* without loading the state, and no step of an invocation that has not
\* acquired the lock changes the state file or the log.
FailedLeavesFiles ==
    [][\A p \in Procs :
          ~wasHolder'[p] /\ lpc'[p] # lpc[p]
          => /\ fetchFile' = fetchFile /\ newsLog' = newsLog /\ mem' = mem
             /\ lpc'[p] = Out => exit'[p] \in {"1", "killed"}]_vars

\* an invocation found the lock held, while a state file and a log entry of an
\* earlier run existed, and has exited with status 1; the holder is still in
\* its body
FailedWhileHeld ==
    \E p, q \in Procs :
       /\ p # q
       /\ lpc[p] = Out /\ exit[p] = "1" /\ ~wasHolder[p]
       /\ lpc[q].ph = "body" /\ wasHolder[q]
       /\ fetchFile # {} /\ newsLog # <<>>

-----------------------------------------------------------------------------
(* StateStore: the loaders *)

\* the content is the whole text of a JSON object
HoldsMap(content) ==
    /\ content \notin {Missing, Undecodable, JsonArray}
    /\ JsonLoads(content).ok

\* C21: load_state and load_breaking_state never raise, and for a missing
\* file, an unparseable file or a payload that is not a map they return the
\* fresh default state: the empty map, and the breaking defaults with
\* alerts_today 0, no seen ids and today's date.
LoadersNeverRaise ==
    /\ tOp \in {"load_state", "load_breaking_state"} => tResult.raised = "no"
    /\ tOp = "load_state" /\ ~HoldsMap(tInput) => tResult.value = NoState
    /\ tOp = "load_breaking_state" /\ ~HoldsMap(tInput)
          => tResult.value = [last_check |-> None, seen_ids |-> <<>>, alerts_today |-> 0,
                              today_date |-> DateIso(tNow), last_alert_time |-> None]


-----------------------------------------------------------------------------
(* Fetch runs step by step: the log and the state file *)

\* the article lines of a run's results that the log does not hold
Unlogged ==
    UNION {{ArticleLine(accepted[i][2][k]) : k \in 1..Len(accepted[i][2])} :
             i \in 1..Len(accepted)}
      \ {LogLines(newsLog)[n] : n \in 1..Len(LogLines(newsLog))}

\* C29: a fetch run that found new articles appends them to the log before it
\* persists the state, so that a run that has ended, killed or not, and has
\* written state.json has every article it accepted in the log.
LoggedBeforePersisted ==
    cmd = "fetch" /\ pc = "idle" /\ writes > 0 => Unlogged = {}

-----------------------------------------------------------------------------
(* Deduplicator: properties *)

\* the places of the accepted articles of the run: <<i, k>> is the k-th new
\* article of the i-th source with results
AcceptedAt == {ik \in (1..Len(Sources)) \X (1..3) :
                 ik[1] <= Len(accepted) /\ ik[2] <= Len(accepted[ik[1]][2])}

SignatureAt(ik) == title_prefix(accepted[ik[1]][2][ik[2]].title)

\* C23: within one fetch run, over all sources in order, no two accepted
\* articles have the same title signature, and no accepted article has a
\* signature of the set built from the log as the run found it; so an article
\* accepted from an earlier source blocks the later ones with its signature.
OneArticlePerSignature ==
    cmd = "fetch" /\ pc \in {"sources", "logging"} =>
       /\ \A x \in AcceptedAt : \A y \in AcceptedAt : x # y => SignatureAt(x) # SignatureAt(y)
       /\ \A x \in AcceptedAt : SignatureAt(x) \notin load_title_prefixes(LogLines(newsLog))

\* a later source listed the story of an earlier source under another title,
\* and the run took the first and passed over the second
BlockedByEarlierSource ==
    /\ cmd = "fetch" /\ pc = "sources"
    /\ Len(offered) = 2 /\ Len(accepted) >= 1
    /\ accepted[1][1] = offered[1][1]
    /\ \E k \in 1..Len(offered[2][2].articles) :
          /\ ~offered[2][2].failed
          /\ ~is_junk(offered[2][2].articles[k].title)
          /\ offered[2][2].articles[k].title # accepted[1][2][1].title
          /\ title_prefix(offered[2][2].articles[k].title) = title_prefix(accepted[1][2][1].title)
          /\ \A x \in AcceptedAt : accepted[x[1]][2][x[2]] # offered[2][2].articles[k]

\* C24: when a fetch run has completed and the next run gets from every source
\* it polls the articles that source returned to the run before (the log is
\* not rotated in between), the next run accepts no article and appends
\* nothing to the log.
RepeatedRunAddsNothing ==
    [][(/\ offered' # <<>>
        /\ \A i \in 1..Len(offered') : \E j \in 1..Len(before') : before'[j] = offered'[i])
          => accepted' = <<>> /\ newsLog' = newsLog]_vars

-----------------------------------------------------------------------------
(* Runs step by step: sources whose fetch fails *)

\* the digests of the articles the reply carries, for the source name
DigestsOf(name, reply) ==
    {article_hash(reply.articles[k].title, reply.articles[k].link, name) :
        k \in 1..Len(reply.articles)}

SeenIn(state) == {Get(state, "seen_ids", <<>>)[k] : k \in 1..Len(Get(state, "seen_ids", <<>>))}

\* the turn of the fetch loop for a source whose fetch fails: nothing of it is
\* accepted, the state records a fetch without new articles, the loop goes on
FailedFetchTurn ==
    cmd = "fetch" /\ Len(offered') = Len(offered) + 1 /\ offered'[Len(offered')][2].failed
       => /\ accepted' = accepted /\ results' = results /\ prefixes' = prefixes
          /\ mem' = Recorded(mem, Sources[nextSrc], clock, FALSE)
          /\ pc' = "sources" /\ nextSrc' = nextSrc + 1

\* the scan of a breaking run: a source whose fetch fails adds no digest and no
\* match, and every article of the other sources is scanned all the same
FailedScan ==
    cmd = "breaking" /\ pc = "scan" /\ pc' \in {"save", "alerts"}
       => \A i \in 1..Len(offered') :
             IF offered'[i][2].failed
             THEN /\ DigestsOf(offered'[i][1], offered'[i][2]) \cap SeenIn(mem') \subseteq SeenIn(mem)
                  /\ \A k \in 1..Len(found') : found'[k].source # offered'[i][1]
             ELSE DigestsOf(offered'[i][1], offered'[i][2]) \subseteq SeenIn(mem')

\* a run that returned 0 has gone through all its sources and has written its
\* state file
RunCompleted ==
    pc = "idle" /\ lastExit = "ok"
       => /\ writes = 1
          /\ cmd = "fetch" => polled = SourceNames /\ Len(offered) = Len(Sources)
                                 /\ nextSrc > Len(Sources) /\ fetchFile = {mem}
          /\ cmd = "breaking" => Len(offered) = 2 /\ disk = {mem}

\* C25: in a fetch or breaking run, a source whose fetch fails or times out
\* yields an empty article list for that source only; every remaining due
\* source is still polled in that run, and the run still persists state and
\* exits 0.
FailedSourceIsEmpty ==
    /\ [][FailedFetchTurn /\ FailedScan]_vars
    /\ [](RunCompleted)

\* a fetch run returned 0 after the fetch of its first source failed; the
\* article of the second source is in its results and the state is written
RunSurvivedFailure ==
    /\ cmd = "fetch" /\ pc = "idle" /\ lastExit = "ok"
    /\ Len(offered) = 2
    /\ offered[1][2].failed /\ offered[1][2].articles # <<>>
    /\ ~offered[2][2].failed
    /\ results = {offered[2][1]}
    /\ fetchFile = {mem} /\ ZKey(offered[1][1]) \in DOMAIN mem

-----------------------------------------------------------------------------
(* Whole fetch runs: the counter of empty fetches *)

\* C31: after any sequence of fetch runs, the counter _zeros:<name> in
\* state.json is the number of fetches of the source in a row that yielded no
\* new article (the key is absent when that number is 0), and a run prints
\* the zero-article warning for exactly the sources it fetched whose counter
\* has reached 5 or more.
ZerosCountEmptyFetches ==
    cmd = "fetch" =>
       /\ \A n \in SourceNames :
             IF streak[n] = 0 THEN ZKey(n) \notin DOMAIN load_state(fetchFile)
             ELSE /\ ZKey(n) \in DOMAIN load_state(fetchFile)
                  /\ load_state(fetchFile)[ZKey(n)] = Str(streak[n])
       /\ warned = {n \in polled : streak[n] >= 5}

\* a run has fetched one source for the fifth time in a row without a new
\* article and has warned about it, while the other source, warned about in an
\* earlier run or not, has a new article and no counter
FifthEmptyFetch ==
    /\ cmd = "fetch" /\ pc = "idle" /\ lastExit = "ok"
    /\ \E n \in SourceNames :
          /\ streak[n] = 5 /\ warned = {n}
          /\ \E m \in polled \ {n} : m \in results /\ ZKey(m) \notin DOMAIN load_state(fetchFile)

-----------------------------------------------------------------------------
(* Fetch runs step by step: what a turn of the loop leaves alone *)

\* the entries of the source n in the state dict: timestamp and counter
EntriesOf(state, n) == <<Get(state, n, None), Get(state, ZKey(n), None)>>

\* one turn of the loop over the sources, for the source whose turn it is
TurnFrame ==
    cmd = "fetch" /\ pc = "sources" /\ nextSrc' = nextSrc + 1 =>
       LET name == Sources[nextSrc]
           due == should_fetch(mem, name, cadenceOf[name], clock)
       IN  /\ \A n \in SourceNames \ {name} : EntriesOf(mem', n) = EntriesOf(mem, n)
           /\ Get(mem', name, None) # Get(mem, name, None)
                 => due /\ (name \in results' \/ name \notin DOMAIN mem)
           /\ ~due => name \notin polled' /\ EntriesOf(mem', name) = EntriesOf(mem, name)
           /\ due /\ name \in DOMAIN mem /\ name \notin results'
                 => name \in polled' /\ mem'[name] = mem[name]

\* the state file after a run that returned 0, against the file the run found
RunFrame ==
    cmd = "fetch" /\ pc = "idle" /\ lastExit = "ok" =>
       \A n \in SourceNames :
          /\ Get(load_state(fetchFile), n, None) # Get(load_state(atStart), n, None)
                => n \in polled /\ (n \in results \/ n \notin DOMAIN load_state(atStart))
          /\ n \notin polled => EntriesOf(load_state(fetchFile), n) = EntriesOf(load_state(atStart), n)

\* C32: in a fetch run, the last-fetch timestamp of a source changes only if the
\* source was due and either yielded a new article or had no recorded
\* timestamp; a source that is not due is not fetched and keeps timestamp and
\* counter; a due source with a recorded timestamp and no new article keeps
\* its timestamp.
TimestampFrame == [][TurnFrame]_vars /\ [](RunFrame)

\* a run returned 0 after it fetched a due source that had a timestamp of an
\* earlier time and found nothing new: the timestamp is the earlier one still
EmptyFetchKeptTimestamp ==
    /\ cmd = "fetch" /\ pc = "idle" /\ lastExit = "ok"
    /\ \E n \in polled \ results :
          /\ n \in DOMAIN load_state(atStart)
          /\ Parses(load_state(atStart)[n])
          /\ FromIso(load_state(atStart)[n]) < clock
          /\ load_state(fetchFile)[n] = load_state(atStart)[n]

-----------------------------------------------------------------------------
(* The fetch of one source: cli.py lines 88-98 applied to drawn sources.     *)

\* a Python value that is None or a list
PyNone == [none |-> TRUE, items |-> <<>>]
PyList(items) == [none |-> FALSE, items |-> items]

\* fetcher.py lines 83-102, fetch_rss: the articles of the feed; `except
\* Exception` returns [], and no path returns None
fetch_rss(feed) == PyList(fetch(feed))

\* fetcher.py lines 105-129, fetch_web: the same for a page
fetch_web(page) == PyList(fetch(page))

\* cli.py line 96: `articles or []`
OrEmpty(v) == IF v.none THEN <<>> ELSE v.items

\* the keys of a source entry of the configuration: a feed with a page, a feed
\* alone, a page alone
SourceKinds ==
    {[rss |-> TRUE, url |-> TRUE], [rss |-> TRUE, url |-> FALSE], [rss |-> FALSE, url |-> TRUE]}

\* cli.py lines 91-98 for a source with the key "rss", else the fetch_web of
\* line 100: what fetch_rss returned, whether fetch_web was called, whether it
\* was called as the fallback of line 93, and the articles of the source
SourceArticles(source, feed, page) ==
    IF source.rss
    THEN IF fetch_rss(feed).none /\ source.url
         THEN [rss |-> fetch_rss(feed), web |-> TRUE, fellBack |-> TRUE,
               articles |-> OrEmpty(fetch_web(page))]
         ELSE [rss |-> fetch_rss(feed), web |-> FALSE, fellBack |-> FALSE,
               articles |-> OrEmpty(fetch_rss(feed))]
    ELSE [rss |-> PyNone, web |-> TRUE, fellBack |-> FALSE,
          articles |-> OrEmpty(fetch_web(page))]

SourceInit ==
    /\ tInput \in [source : SourceKinds, feed : PollReplies, page : PollReplies]
    /\ tState = NoState
    /\ tNow = 0
    /\ tPrev = NoState
    /\ tOp = "none"
    /\ tResult = FALSE
    /\ tCount = 0
    /\ tCadence = "daily"

ApplySourceArticles ==
    /\ tOp = "none"
    /\ tResult' = SourceArticles(tInput.source, tInput.feed, tInput.page)
    /\ tOp' = "articles"
    /\ UNCHANGED <<tInput, tState, tNow, tPrev, tCount, tCadence>>
    /\ UNCHANGED <<lockVars, saveVars, runVars, stepVars, appendVars>>

SourceNext == ApplySourceArticles

SourceStart == LockInit /\ SaveInit /\ AppendIdle /\ SourceInit /\ RunIdle /\ StepIdle
SourceSpec == SourceStart /\ [][SourceNext]_vars

\* C33: when the feed of a source is unreachable or does not parse, fetch_rss
\* returns None and not an empty list, and for a source that also has a page
\* URL the run then calls fetch_web for that source
FailedFeedFallsBack ==
    (tOp = "articles" /\ tInput.source.rss /\ tInput.feed.failed)
        => /\ tResult.rss = PyNone
           /\ tInput.source.url => tResult.fellBack /\ tResult.articles = fetch(tInput.page)

-----------------------------------------------------------------------------
(* Breaking runs: the log section *)

\* the matches of the section a run appended to the log, none when it
\* appended nothing
SectionOf(before_log, after_log) ==
    IF Len(after_log) > Len(before_log) THEN after_log[Len(after_log)].items ELSE <<>>

\* the matches whose alert the sender delivered in the last run
DeliveredIn(dry, outcome, handled_as_sent) ==
    IF ~dry /\ outcome = "ok" THEN handled_as_sent ELSE <<>>

\* C34: the section a breaking run appends to the log lists exactly the matches
\* whose alert was sent in that run; a throttled match and a dry-run match are
\* not written, and a run that sent no alert appends nothing.
LogListsSentOnly ==
    [][/\ Len(log') <= Len(log) + 1
       /\ SubSeq(log', 1, Len(log)) = log
       /\ SectionOf(log, log') = DeliveredIn(dryRun', sendResult', sentMatches')]_vars

\* the same for the runs whose sender worked, or was not called
LogListsHandledOnly ==
    [][sendResult' \in {"ok", "none"} =>
          /\ Len(log') <= Len(log) + 1
          /\ SubSeq(log', 1, Len(log)) = log
          /\ SectionOf(log, log') = DeliveredIn(dryRun', sendResult', sentMatches')
          /\ dryRun' => log' = log
          /\ \A j \in 1..Len(SectionOf(log, log')) : InSeq(SectionOf(log, log')[j], matches')]_vars

AppendStart == LockInit /\ SaveInit /\ FnIdle /\ RunIdle /\ StepIdle /\ AppendInit
AppendSpec == AppendStart /\ [][AppendNext]_vars

\* C35: the log is append-only under append_to_log: fetch, breaking and
\* discover runs hold different locks or none and may call append_to_log on the
\* same log at the same time, and after any interleaving of their calls every
\* batch whose append returned is in the log.
EveryBatchPresent == \A b \in appended : InSeq(b, logFile)

-----------------------------------------------------------------------------
(* The breaking run on a state file whose fields have any JSON type:         *)
(* breaking.py lines 68-82, 100-119 and 203-276.                             *)

\* JSON values as pairs: a number, a list of n strings, a list of n numbers;
\* Str(n) is the string of the digits of n, Garbage a string of seven letters
\* that is no number, None is null; Absent stands for a key the map lacks
JInt(n) == <<"int", n>>
JStrings(n) == <<"list", n>>
JNumbers(n) == <<"numbers", n>>
Absent == <<"absent", 0>>

\* state.get(key, default)
Field(v, default) == IF v = Absent THEN default ELSE v

\* int(v): the number, ValueError for a string that is no number, TypeError
\* for None and for a list
PyInt(v) ==
    CASE v[1] \in {"int", "str"} -> Returned(v[2])
      [] v[1] \in {"garbage", "empty"} -> Raised("ValueError")
      [] OTHER -> Raised("TypeError")

\* breaking.py line 211: `[str(value) for value in state.get("seen_ids", [])
\* if isinstance(value, str)]`, as the length of the list; the loop takes a
\* list item by item and a string letter by letter, and raises TypeError for a
\* value that cannot be iterated
SeenListOf(v) ==
    CASE v[1] = "list" -> Returned(v[2])
      [] v[1] = "numbers" -> Returned(0)
      [] v[1] = "garbage" -> Returned(7)
      [] v[1] \in {"none", "int"} -> Raised("TypeError")

\* an exception that leaves run_breaking ends the command with a traceback
\* and exit status 1, the state file as it was
Crashed(e, input) ==
    [raised |-> e, exit |-> 1, saved |-> FALSE, alerts_today |-> input.alerts_today]
Completed(alerts) == [raised |-> "no", exit |-> 0, saved |-> TRUE, alerts_today |-> alerts]

\* lines 100-104 on the two fields: the counter after reset_daily_counter
RolledAlerts(input, t) ==
    IF Field(input.today_date, None) # DateIso(t) THEN JInt(0) ELSE input.alerts_today

\* lines 107-119, can_alert once int() has returned n: a last_alert_time that
\* is absent, null or no timestamp does not throttle
CanAlertTyped(n, last, t) ==
    IF n >= MAX_ALERTS_PER_DAY THEN FALSE
    ELSE IF ~Truthy(last) THEN TRUE
    ELSE IF ~Parses(last) THEN TRUE
    ELSE (t - FromIso(last)) * 60 >= COOLDOWN_MINUTES * 60

\* lines 203-276 for a state file that holds a JSON object: the rollover, the
\* seen list, the scan (input.match: whether it finds one breaking article),
\* the alert loop and the save
TypedRun(input, t) ==
    IF SeenListOf(Field(input.seen_ids, JStrings(0))).raised # "no"
    THEN Crashed(SeenListOf(Field(input.seen_ids, JStrings(0))).raised, input)
    ELSE IF ~input.match THEN Completed(RolledAlerts(input, t))
    ELSE IF input.dry THEN Completed(RolledAlerts(input, t))
    ELSE IF PyInt(Field(RolledAlerts(input, t), JInt(0))).raised # "no"
    THEN Crashed(PyInt(Field(RolledAlerts(input, t), JInt(0))).raised, input)
    ELSE IF ~CanAlertTyped(PyInt(Field(RolledAlerts(input, t), JInt(0))).value,
                           Field(input.last_alert_time, None), t)
    THEN Completed(RolledAlerts(input, t))
    ELSE Completed(JInt(PyInt(Field(RolledAlerts(input, t), JInt(0))).value + 1))

\* the fields drawn: absent, of the right type, and of wrong types
AlertsValues == {Absent, None, JInt(0), JInt(MAX_ALERTS_PER_DAY), Str(2), Garbage}
SeenValues == {Absent, None, JInt(5), Garbage, JStrings(1), JNumbers(2)}
DateValues == {Absent, DateIso(0), DateIso(MinutesPerDay)}
LastValues == {Absent, JInt(5), IsoFormat(0)}

TypedInit ==
    /\ tInput \in [alerts_today : AlertsValues, seen_ids : SeenValues,
                   today_date : DateValues, last_alert_time : LastValues,
                   match : BOOLEAN, dry : BOOLEAN]
    /\ tState = NoState
    /\ tNow \in {0, COOLDOWN_MINUTES}
    /\ tPrev = NoState
    /\ tOp = "none"
    /\ tResult = FALSE
    /\ tCount = 0
    /\ tCadence = "daily"

ApplyTypedRun ==
    /\ tOp = "none"
    /\ tResult' = TypedRun(tInput, tNow)
    /\ tOp' = "run_breaking"
    /\ UNCHANGED <<tInput, tState, tNow, tPrev, tCount, tCadence>>
    /\ UNCHANGED <<lockVars, saveVars, runVars, stepVars, appendVars>>

TypedNext == ApplyTypedRun

TypedStart == LockInit /\ SaveInit /\ AppendIdle /\ TypedInit /\ RunIdle /\ StepIdle
TypedSpec == TypedStart /\ [][TypedNext]_vars

\* C36: a breaking run completes with exit 0 and a persisted state for every
\* content of the state file, also for a JSON map whose fields are missing or
\* of the wrong type (a non-numeric alerts_today, a seen_ids that is no list):
\* no error is raised to the caller.
RunSurvivesAnyFields ==
    tOp = "run_breaking" => tResult.raised = "no" /\ tResult.exit = 0 /\ tResult.saved

\* the same for the maps in which seen_ids can be iterated and alerts_today
\* is a number, the digits of one, or absent
RunSurvivesUsableFields ==
    (/\ tOp = "run_breaking"
     /\ tInput.seen_ids[1] \notin {"none", "int"}
     /\ tInput.alerts_today[1] \in {"absent", "int", "str"})
        => tResult.raised = "no" /\ tResult.exit = 0 /\ tResult.saved

-----------------------------------------------------------------------------
(* Breaking runs: a recorded digest and the later runs *)

\* C37: once a breaking run has recorded the digest of an article, whether its
\* alert was sent, throttled or only printed by a dry run, no later run alerts
\* the article while the digest is in the persisted seen list: a run matches
\* and handles no article whose digest is in the list it loads, and every match
\* of a run, sent or not, is in the list the run persists.
RecordedNeverAlertedLater ==
    [][/\ \A j \in 1..Len(returned') :
             InSeq(DigestOf(returned'[j]), SeenOn(disk)) =>
                /\ ~InSeq(returned'[j], matches')
                /\ ~InSeq(returned'[j], sentMatches')
                /\ returned'[j].source = SourceName =>
                      alertsOf'[returned'[j].title.no] = alertsOf[returned'[j].title.no]
       /\ published' + flood' <= MAX_SEEN_IDS =>
             \A j \in 1..Len(matches') : InSeq(DigestOf(matches'[j]), SeenOn(disk'))]_vars

\* a run that was not dry and was free to alert was returned a breaking article
\* that an earlier run had recorded without sending its alert: the run skipped
\* it, and no alert has ever been sent for it
RecordedUnsentSkippedLater ==
    /\ ~dryRun /\ matches = <<>> /\ sentMatches = <<>> /\ skips >= 1
    /\ \E st \in disk : can_alert(st, clock)
    /\ \E j \in 1..Len(returned) :
          /\ is_breaking(returned[j].title)
          /\ alertsOf[returned[j].title.no] = 0
          /\ InSeq(DigestOf(returned[j]), SeenOn(disk))

-----------------------------------------------------------------------------
(* ProcessLock: what a failed attempt leaves behind *)

\* C38: a failed acquisition has no effect on the lock of the holder: no step
\* of an invocation whose flock failed changes what the lock path names while
\* the file it names is locked, so that the path still refers to the file the
\* holder locked and later attempts keep failing until the holder releases.
FailedAttemptKeepsLockPath ==
    [][\A p \in Procs :
          (/\ raising[p] = "SystemExit1"
           /\ lpc'[p] # lpc[p]
           /\ lockDir # NoIno
           /\ flockOf[lockDir] # NoDesc)
              => lockDir' = lockDir]_vars

-----------------------------------------------------------------------------
(* Breaking runs step by step: a run killed after its alerts *)

\* C39: an alert that was dispatched is durably accounted for: when a non-dry
\* breaking run was killed after it dispatched alerts, the state file the next
\* run starts from has the digests of the alerted articles in its seen list
\* (so that the next run does not alert them again), counts them in
\* alerts_today and has the time of the dispatch as last_alert_time.
DispatchedIsPersisted ==
    (/\ cmd = "breaking" /\ pc = "idle" /\ lastExit = "aborted"
     /\ ~dryRun /\ handled # <<>>)
        => /\ \A j \in 1..Len(handled) : InSeq(DigestOf(handled[j]), SeenOn(disk))
           /\ FieldOn(disk, "last_alert_time", None) = IsoFormat(clock)
           /\ FieldOn(disk, "alerts_today", 0)
                 = Get(AfterReset(atStart, clock), "alerts_today", 0) + Len(handled)

\* the same for the runs that returned: what they handled as sent is persisted
DispatchedIsPersistedAtReturn ==
    (/\ cmd = "breaking" /\ pc = "idle" /\ lastExit = "ok"
     /\ ~dryRun /\ handled # <<>>)
        => /\ \A j \in 1..Len(handled) : InSeq(DigestOf(handled[j]), SeenOn(disk))
           /\ FieldOn(disk, "last_alert_time", None) = IsoFormat(clock)
           /\ FieldOn(disk, "alerts_today", 0)
                 = Get(AfterReset(atStart, clock), "alerts_today", 0) + Len(handled)
====
